---- MODULE Spec2Model ----
(***************************************************************************)
(* The multi-platform module resolution pipeline of @expo/cli              *)
(* (withMetroMultiPlatform.ts).  A module specifier and every file path is *)
(* the sequence of its "/"-separated segments: "react-native/index" is     *)
(* <<"react-native", "index">>, the absolute path "/proj/App.js" is        *)
(* <<"", "proj", "App.js">> (the empty first segment is the root).  Where  *)
(* two names are separated by a backslash instead, the segment "\\" stands  *)
(* between them: "proj\App.js" is <<"proj", "\\", "App.js">>.  A string    *)
(* that is hashed is the sequence of its character codes.                  *)
(***************************************************************************)
EXTENDS Integers, Sequences, FiniteSets, TLC

VARIABLES
  request,                  \* the resolution request the bundler is issuing
  layout,                   \* what is on disk (outside the generated stubs)
  options,                  \* the options withExtendedResolver was built with
  rules,                    \* the table of external rules the pipeline holds
  aliasTables,              \* the alias tables the pipeline holds
  tsConfigResolve,          \* the active path-alias mapping, or NoConfig
  loading,                  \* configs being loaded by reloads in flight
  configWatcher,            \* the tsconfig watcher, its exit hooks and history
  virtualModules,           \* materialized stub files: path -> contents
  tapCache,                 \* keys of tapVirtualModuleMemoized's cache
  hashCache,                \* fastHashMemoized's cache: contents -> hash
  nodejsSourceExtensions,   \* the cached server extension list, if any
  writes,                   \* instrumentation: contents -> number of writes
  declared,                 \* instrumentation: contents -> declarations made
  last,                     \* the request, outcome and trace of the last call
  baseline,                 \* the first outcome of `request` since a reload
  invocation,               \* a call of one of the side functions: input, result
  fetchCache,               \* the cache of fetchRSC: at most one entry
  globalThis,               \* the __WAKU_*__ globals of the RSC client
  fetches                   \* instrumentation: the requests the RSC client made

vars == <<request, layout, options, rules, aliasTables, tsConfigResolve, loading,
          configWatcher, virtualModules,
          tapCache, hashCache, nodejsSourceExtensions, writes, declared, last,
          baseline, invocation, fetchCache, globalThis, fetches>>

\* The state outside the resolution pipeline.
elsewhere == <<invocation, fetchCache, globalThis, fetches>>

NoConfig == [none |-> TRUE]

NotCached == [cached |-> FALSE, exts |-> <<>>]

-----------------------------------------------------------------------------
(* Paths (node's path module, posix flavour, on segment sequences).         *)

RECURSIVE NormalizeFrom(_, _)
NormalizeFrom(acc, rest) ==
  IF rest = <<>> THEN acc
  ELSE LET s == Head(rest)
           n == Len(acc)
       IN IF s = "." THEN NormalizeFrom(acc, Tail(rest))
          ELSE IF s = ".."
            THEN IF n > 0 /\ acc[n] = "" THEN NormalizeFrom(acc, Tail(rest))
                 ELSE IF n > 0 /\ acc[n] # ".."
                   THEN NormalizeFrom(SubSeq(acc, 1, n - 1), Tail(rest))
                   ELSE NormalizeFrom(Append(acc, ".."), Tail(rest))
            ELSE NormalizeFrom(Append(acc, s), Tail(rest))

pathJoin(a, b) == NormalizeFrom(<<>>, a \o b)

pathDirname(p) == SubSeq(p, 1, Len(p) - 1)

RECURSIVE CommonLen(_, _)
CommonLen(a, b) ==
  IF a = <<>> \/ b = <<>> \/ Head(a) # Head(b) THEN 0
  ELSE 1 + CommonLen(Tail(a), Tail(b))

pathRelative(from, to) ==
  LET k == CommonLen(from, to)
  IN [i \in 1..(Len(from) - k) |-> ".."] \o SubSeq(to, k + 1, Len(to))

Includes(p, seg) == \E i \in 1..Len(p) : p[i] = seg

EndsWith(p, suffix) ==
  /\ Len(p) >= Len(suffix)
  /\ SubSeq(p, Len(p) - Len(suffix) + 1, Len(p)) = suffix

Backslash == "\\"

\* The path with every separator a backslash (path.join, realpathSync and
\* the resolver on win32).
RECURSIVE Backslashed(_)
Backslashed(p) ==
  IF Len(p) <= 1 THEN p ELSE <<Head(p), Backslash>> \o Backslashed(Tail(p))

\* The path with the separators it has been given.
normalizeSlashesKept(p) == p

\* p.replace(/\\/g, '/'): every backslash becomes a separating slash.
normalizeSlashes(p) == SelectSeq(p, LAMBDA s : s # Backslash)

\* The last name `seg` that a slash follows, at or before index i.
RECURSIVE LastIndexOf(_, _, _)
LastIndexOf(p, seg, i) ==
  IF i = 0 THEN 0
  ELSE IF p[i] = seg /\ p[i + 1] # Backslash THEN i
  ELSE LastIndexOf(p, seg, i - 1)

RECURSIVE FirstIndexOf(_, _, _)
FirstIndexOf(p, seg, i) ==
  IF i >= Len(p) THEN 0
  ELSE IF p[i] = seg /\ p[i + 1] # Backslash THEN i
  ELSE FirstIndexOf(p, seg, i + 1)

\* The replacement with a lazy pattern: up to the first 'node_modules/'.
DropToFirstNodeModules(p) ==
  IF FirstIndexOf(p, "node_modules", 1) = 0 THEN p
  ELSE SubSeq(p, FirstIndexOf(p, "node_modules", 1) + 1, Len(p))

\* normalizeSlashes(filePath).replace(/.*node_modules\//, '')
DropToNodeModules(p) ==
  LET i == LastIndexOf(p, "node_modules", Len(p) - 1)
  IN IF i = 0 THEN p ELSE SubSeq(p, i + 1, Len(p))

-----------------------------------------------------------------------------
(* Character codes and fastHash.                                            *)

SlashCode == <<47>>

CharCodes(seg) ==
  CASE seg = "react-native" -> <<114, 101, 97, 99, 116, 45, 110, 97, 116, 105, 118, 101>>
    [] seg = "react-native-web" -> <<114, 101, 97, 99, 116, 45, 110, 97, 116, 105, 118, 101, 45, 119, 101, 98>>
    [] seg = "react" -> <<114, 101, 97, 99, 116>>
    [] seg = "debug" -> <<100, 101, 98, 117, 103>>
    [] seg = "os" -> <<111, 115>>
    [] seg = "index" -> <<105, 110, 100, 101, 120>>
    [] seg = "event-target-shim" -> <<101, 118, 101, 110, 116, 45, 116, 97, 114, 103, 101, 116, 45, 115, 104, 105, 109>>
    [] seg = "@app" -> <<64, 97, 112, 112>>
    [] seg = "widgets" -> <<119, 105, 100, 103, 101, 116, 115>>
    [] seg = "react-dom" -> <<114, 101, 97, 99, 116, 45, 100, 111, 109>>
    [] seg = "server" -> <<115, 101, 114, 118, 101, 114>>
    [] seg = "invariant" -> <<105, 110, 118, 97, 114, 105, 97, 110, 116>>
    [] seg = "@radix-ui" -> <<64, 114, 97, 100, 105, 120, 45, 117, 105>>
    [] seg = "Aa" -> <<65, 97>>
    [] seg = "BB" -> <<66, 66>>

RECURSIVE NameCodes(_)
NameCodes(name) ==
  IF Len(name) = 1 THEN CharCodes(name[1])
  ELSE CharCodes(Head(name)) \o SlashCode \o NameCodes(Tail(name))

Limb == 65536

\* hash << 5 on the 32-bit word held as two 16-bit limbs <<high, low>>.
ShiftLeft5(h) ==
  <<(32 * h[1] + ((32 * h[2]) \div Limb)) % Limb, (32 * h[2]) % Limb>>

\* A round that only shifts and adds.
HashStepWithoutSubtraction(h, c) ==
  <<(ShiftLeft5(h)[1] + ((ShiftLeft5(h)[2] + c) \div Limb)) % Limb,
    (ShiftLeft5(h)[2] + c) % Limb>>

\* One round of hash = ((hash << 5) - hash + c) | 0: the difference and the
\* sum are exact, | 0 keeps the low 32 bits.
HashStep(h, c) ==
  LET low == ShiftLeft5(h)[2] - h[2] + c
      high == ShiftLeft5(h)[1] - h[1] + (low \div Limb)
  IN <<high % Limb, low % Limb>>

\* The word after the character at index i, unchanged past the end of str.
HashAt(h, str, i) == IF i > Len(str) THEN h ELSE HashStep(h, str[i])

\* The loop of fastHash from index i on, four characters per unfolding; the
\* word is computed before the loop continues.
RECURSIVE HashFrom(_, _, _)
HashFrom(h, str, i) ==
  IF i > Len(str) THEN h
  ELSE LET word == HashAt(HashAt(HashAt(HashAt(h, str, i), str, i + 1), str, i + 2), str, i + 3)
       IN IF word[1] >= 0 THEN HashFrom(word, str, i + 4) ELSE word

HashLimbs(h0, str) == HashFrom(h0, str, 1)

ToInt32(h) ==
  IF h[1] >= Limb \div 2 THEN (h[1] - Limb) * Limb + h[2] ELSE h[1] * Limb + h[2]

fastHash(str) == ToInt32(HashLimbs(<<0, 0>>, str))

-----------------------------------------------------------------------------
(* The project on disk and the underlying resolver (metro-resolver), which  *)
(* the pipeline consumes as a primitive.                                    *)

ProjectRoot == <<"", "proj">>

NodeModules == ProjectRoot \o <<"node_modules">>

METRO_EXTERNALS_FOLDER == <<".expo", "metro", "externals">>

METRO_SHIMS_FOLDER == <<".expo", "metro", "shims">>

REACT_CANARY_FOLDER == <<".expo", "metro", "canary">>

assetRegistryPath ==
  NodeModules \o <<"@react-native", "assets-registry", "registry.js">>

canaryFolder == pathJoin(ProjectRoot, REACT_CANARY_FOLDER)

shimsFolder == pathJoin(ProjectRoot, METRO_SHIMS_FOLDER)

\* Packages every layout has installed, and packages a layout may lack.
CorePackages ==
  {"react-native", "react", "debug", "@expo", "@react-native", "react-dom",
   "invariant"}

OptionalPackages == {"react-native-web", "os", "event-target-shim"}

\* Last segments that name a file (they carry an extension).
FileSegments ==
  {"index.js", "index.mjs", "event-target-shim.js", "registry.js",
   "react.production.min.js", "ReactNativeRenderer-prod.js", "logo.png",
   "App.js", "Core.js"}

AssetFiles == {ProjectRoot \o <<"app", "logo.png">>}

AssetNames == {"logo.png"}

\* Packages whose package.json maps them to false: they resolve to the
\* empty module.
EmptiedPackages == {"encoding"}

\* Files of the project and of its setup (setupNodeExternals writes the
\* externals); a "missing" layout has lost the generated ones too.
DiskFiles(lay) ==
  {ProjectRoot \o <<"app", "widgets", "index.js">>,
   ProjectRoot \o <<"app", "logo.png">>,
   ProjectRoot \o <<"src", "widgets", "index.js">>,
   ProjectRoot \o <<"src", "os", "index.js">>,
   ProjectRoot \o <<"src", "react-native", "index.js">>,
   ProjectRoot \o <<"app", "vendor", "react-native-web", "dist", "modules",
                    "AssetRegistry", "index.js">>,
   NodeModules \o <<"react", "cjs", "react.production.min.js">>}
  \cup (IF lay.optional = "missing" THEN {}
        ELSE {ProjectRoot \o METRO_EXTERNALS_FOLDER \o <<"os", "index.js">>})

\* Packages whose files the shims folder and the canary folder override.
OverriddenPackages == {"react-native-web", "react-native", "@react-native"}

\* A path in the separators of the platform the bundler runs on.
Native(lay, p) == IF lay.win32 THEN Backslashed(p) ELSE p

\* The names of a native path, root first.
Located(p) == SelectSeq(p, LAMBDA s : s # Backslash)

OverrideExists(lay, names) ==
  /\ lay.overrides
  /\ \E folder \in {shimsFolder, canaryFolder} :
       /\ Len(names) > Len(folder)
       /\ SubSeq(names, 1, Len(folder)) = folder
       /\ names[Len(folder) + 1] \in OverriddenPackages

existsSync(lay, p) == OverrideExists(lay, Located(p))

Layouts ==
  [optional : {"installed", "missing", "corrupt"}, overrides : BOOLEAN,
   vectorIcons : {TRUE}, win32 : {FALSE}, reloads : {{}}]

Resolved(type, path) ==
  [kind |-> "resolution", type |-> type, filePath |-> path,
   error |-> "none", subject |-> <<>>]

Thrown(class, moduleName) ==
  [kind |-> "throw", type |-> "none", filePath |-> <<>>,
   error |-> class, subject |-> moduleName]

NoDecision ==
  [kind |-> "null", type |-> "none", filePath |-> <<>>,
   error |-> "none", subject |-> <<>>]

EmptyModule == Resolved("empty", <<>>)

IsRelative(moduleName) == moduleName[1] \in {".", ".."}

IsAbsolute(moduleName) == moduleName[1] = ""

\* The index file probed first: the earliest of "js"/"mjs" in sourceExts.
RECURSIVE IndexFile(_)
IndexFile(exts) ==
  IF exts = <<>> THEN "index.js"
  ELSE IF Head(exts) = "mjs" THEN "index.mjs"
  ELSE IF Head(exts) = "js" THEN "index.js"
  ELSE IndexFile(Tail(exts))

\* A package's entry point follows the first main field.
EntryFile(context) ==
  (CASE context.mainFields[1] = "browser" -> <<"dist">>
     [] context.mainFields[1] = "main" -> <<"lib">>
     [] OTHER -> <<"src">>) \o <<IndexFile(context.sourceExts)>>

PackageFile(context, moduleName) ==
  IF Len(moduleName) = 1 THEN NodeModules \o moduleName \o EntryFile(context)
  ELSE IF moduleName[Len(moduleName)] \in FileSegments
    THEN NodeModules \o moduleName
    ELSE NodeModules \o moduleName \o <<IndexFile(context.sourceExts)>>

\* The index file of a directory: the first extension of `exts` with a file.
RECURSIVE FirstIndex(_, _, _)
FirstIndex(files, target, exts) ==
  IF exts = <<>> THEN <<>>
  ELSE IF Append(target, "index." \o Head(exts)) \in files
    THEN Append(target, "index." \o Head(exts))
    ELSE FirstIndex(files, target, Tail(exts))

\* The file a path names among `files`: the path itself, else its index file.
FileLookup(files, target, index, moduleName) ==
  IF target \in files
  THEN Resolved(IF target \in AssetFiles THEN "assetFiles" ELSE "sourceFile", target)
  ELSE IF index # <<>> THEN Resolved("sourceFile", index)
  ELSE Thrown("FailedToResolvePathError", moduleName)

FilesOf(world) == DiskFiles(world.layout) \cup world.virtual

PathLookup(world, context, moduleName, target) ==
  FileLookup(FilesOf(world), target,
             FirstIndex(FilesOf(world), target, context.sourceExts), moduleName)

\* Keys every object literal inherits from Object.prototype.
ObjectPrototypeKeys ==
  {"constructor", "toString", "toLocaleString", "valueOf", "hasOwnProperty",
   "isPrototypeOf", "propertyIsEnumerable", "__proto__"}

\* The inherited value of a key: a function or an object, not a string.
Inherited(key) == <<"[Object.prototype." \o key \o "]">>

\* A module name that is a string.
IsSpecifier(moduleName) ==
  \A key \in ObjectPrototypeKeys : moduleName # Inherited(key)

\* metroResolver.resolve(context, moduleName, platform) against a disk:
\* `world.layout` and the materialized virtual modules `world.virtual`.
Lookup(world, context, moduleName, platform) ==
  IF ~IsSpecifier(moduleName) THEN Thrown("TypeError", moduleName)
  ELSE IF moduleName[1] \in EmptiedPackages THEN EmptyModule
  ELSE IF IsAbsolute(moduleName) THEN PathLookup(world, context, moduleName, moduleName)
  ELSE IF IsRelative(moduleName)
    THEN PathLookup(world, context, moduleName,
                    pathJoin(pathDirname(context.originModulePath), moduleName))
  ELSE IF moduleName[1] \in OptionalPackages
    THEN CASE world.layout.optional = "installed" ->
                Resolved("sourceFile", PackageFile(context, moduleName))
           [] world.layout.optional = "missing" ->
                Thrown("FailedToResolveNameError", moduleName)
           [] OTHER -> Thrown("InvalidPackageError", moduleName)
  ELSE IF Len(moduleName) >= 2 /\ SubSeq(moduleName, 1, 2) = <<"@expo", "vector-icons">>
          /\ ~world.layout.vectorIcons
    THEN Thrown("FailedToResolveNameError", moduleName)
  ELSE IF moduleName[1] \in CorePackages
    THEN Resolved(IF moduleName[Len(moduleName)] \in AssetNames THEN "assetFiles"
                  ELSE "sourceFile",
                  PackageFile(context, moduleName))
  ELSE Thrown("FailedToResolveNameError", moduleName)

\* What the resolver found, its path in the separators of the platform.
Found(lay, result) ==
  IF result.kind = "resolution" THEN [result EXCEPT !.filePath = Native(lay, @)]
  ELSE result

resolver(world, context, moduleName, platform) ==
  Found(world.layout, Lookup(world, context, moduleName, platform))

isFailedToResolveNameError(outcome) ==
  outcome.kind = "throw" /\ outcome.error = "FailedToResolveNameError"

isFailedToResolvePathError(outcome) ==
  outcome.kind = "throw" /\ outcome.error = "FailedToResolvePathError"

isServerEnvironment(environment) == environment \in {"node", "react-server"}

-----------------------------------------------------------------------------
(* The resolution context and its mutation before the strategies run.       *)

DefaultMainFields == <<"react-native", "browser", "main">>

DefaultConditionNames == <<"require", "import">>

DefaultConditionsByPlatform ==
  << <<"ios", <<"react-native">> >>, <<"android", <<"react-native">> >>,
     <<"web", <<"browser">> >> >>

\* The context metro hands over for a request.
IncomingContext(req) ==
  [originModulePath |-> req.originModulePath,
   dev |-> req.dev,
   customResolverOptions |->
     [environment |-> req.environment, exporting |-> req.exporting,
      clientboundary |-> req.clientboundary],
   sourceExts |-> req.sourceExts,
   mainFields |-> DefaultMainFields,
   preferNativePlatform |-> FALSE,
   unstable_enablePackageExports |-> FALSE,
   unstable_conditionNames |-> DefaultConditionNames,
   unstable_conditionsByPlatform |-> DefaultConditionsByPlatform]

EndsWithMjs(ext) == ext \in {"mjs", "web.mjs"}

\* /jsx?$/ on an extension that is not an mjs one.
EndsWithJsx(ext) == ext \in {"js", "jsx", "cjs", "web.js"}

SelectExts(exts, keepMjs) ==
  SelectSeq(exts, LAMBDA e : EndsWithMjs(e) = keepMjs)

RECURSIVE LastJsIndex(_, _)
LastJsIndex(exts, i) ==
  IF i = 0 THEN 0
  ELSE IF EndsWithJsx(exts[i]) THEN i ELSE LastJsIndex(exts, i - 1)

\* The mjs extensions moved behind all others.
getNodejsExtensionsMjsLast(srcExts) ==
  SelectExts(srcExts, FALSE) \o SelectExts(srcExts, TRUE)

getNodejsExtensions(srcExts) ==
  LET mjsExts == SelectExts(srcExts, TRUE)
      nodejsSourceExtensions_ == SelectExts(srcExts, FALSE)
      jsIndex == LastJsIndex(nodejsSourceExtensions_, Len(nodejsSourceExtensions_))
  IN SubSeq(nodejsSourceExtensions_, 1, jsIndex) \o mjsExts
       \o SubSeq(nodejsSourceExtensions_, jsIndex + 1, Len(nodejsSourceExtensions_))

preferredMainFields == <<"browser", "module", "main">>

\* The next value of the nodejsSourceExtensions cache after a request.
NextExtensionCache(cache, immutableContext) ==
  IF isServerEnvironment(immutableContext.customResolverOptions.environment)
       /\ ~cache.cached
  THEN [cached |-> TRUE, exts |-> getNodejsExtensions(immutableContext.sourceExts)]
  ELSE cache

\* A callback that leaves preferNativePlatform as it was handed over.
MutateContextKeepingPreference(opts, cache, immutableContext, platform) ==
  IF isServerEnvironment(immutableContext.customResolverOptions.environment)
  THEN [immutableContext EXCEPT
          !.sourceExts = NextExtensionCache(cache, immutableContext).exts,
          !.unstable_enablePackageExports = TRUE,
          !.unstable_conditionNames =
             IF immutableContext.customResolverOptions.environment = "react-server"
             THEN <<"node", "require", "react-server", "server">>
             ELSE <<"node", "require">>,
          !.unstable_conditionsByPlatform = <<>>,
          !.mainFields = <<"main", "module">>]
  ELSE IF ~opts.EXPO_METRO_NO_MAIN_FIELD_OVERRIDE /\ platform = "web"
    THEN [immutableContext EXCEPT !.mainFields = preferredMainFields]
    ELSE immutableContext

\* The callback given to withMetroMutatedResolverContext.
MutateContext(opts, cache, immutableContext, platform) ==
  LET context == [immutableContext EXCEPT !.preferNativePlatform = platform # "web"]
      environment == context.customResolverOptions.environment
  IN IF isServerEnvironment(environment)
     THEN [context EXCEPT
             !.sourceExts = NextExtensionCache(cache, immutableContext).exts,
             !.unstable_enablePackageExports = TRUE,
             !.unstable_conditionNames =
                IF environment = "react-server"
                THEN <<"node", "require", "react-server", "server">>
                ELSE <<"node", "require">>,
             !.unstable_conditionsByPlatform = <<>>,
             !.mainFields = <<"main", "module">>]
     ELSE IF ~opts.EXPO_METRO_NO_MAIN_FIELD_OVERRIDE /\ platform = "web"
       THEN [context EXCEPT !.mainFields = preferredMainFields]
       ELSE context

\* The two objects after the callback has run: the one it was handed, which
\* it spreads into a new object, and the new object, which it assigns to.
ContextCallback(opts, cache, immutableContext, platform) ==
  [received |-> immutableContext,
   returned |-> MutateContext(opts, cache, immutableContext, platform)]

-----------------------------------------------------------------------------
(* Resolving through the underlying resolver: strictly, or optionally.      *)

getStrictResolver(world, context, platform, moduleName) ==
  resolver(world, context, moduleName, platform)

\* A catch clause that ignores every error.
OptionalCatchAll(error) == NoDecision

\* The catch clause of the optional resolver.
OptionalCatch(error) ==
  IF isFailedToResolveNameError(error) \/ isFailedToResolvePathError(error)
  THEN NoDecision
  ELSE error

OptionalTry(result) == IF result.kind = "throw" THEN OptionalCatch(result) ELSE result

getOptionalResolver(world, context, platform, moduleName) ==
  OptionalTry(getStrictResolver(world, context, platform, moduleName))

\* What a strategy hands back: its decision, the calls it made to the
\* underlying resolver and the virtual modules it declared.
Call(via, moduleName, raised, returned) ==
  [via |-> via, moduleName |-> moduleName, raised |-> raised,
   returned |-> returned]

Step(decision, calls, taps) ==
  [decision |-> decision, calls |-> calls, taps |-> taps]

StrictResult(moduleName, result, taps) ==
  Step(result, <<Call("strict", moduleName, result, result)>>, taps)

StrictStep(world, context, platform, moduleName, taps) ==
  StrictResult(moduleName, getStrictResolver(world, context, platform, moduleName), taps)

OptionalCall(world, context, platform, moduleName) ==
  Call("optional", moduleName,
       getStrictResolver(world, context, platform, moduleName),
       getOptionalResolver(world, context, platform, moduleName))

-----------------------------------------------------------------------------
(* Strategy 1: mock out production react imports in development.            *)

\* /[\\/]node_modules[\\/]react-native[\\/]/
OriginInReactNative(origin) ==
  \E i \in 2..(Len(origin) - 2) :
    origin[i] = "node_modules" /\ origin[i + 1] = "react-native"

ReactDashPackages ==
  {"react-native", "react-native-web", "react-dom", "react-is", "react-refresh"}

\* /[\\/]node_modules[\\/](react[-\\/]|scheduler[\\/])/
OriginInReactPackage(origin) ==
  \E i \in 2..(Len(origin) - 1) :
    /\ origin[i] = "node_modules"
    /\ \/ origin[i + 1] \in ReactDashPackages
       \/ origin[i + 1] \in {"react", "scheduler"} /\ i + 1 < Len(origin)

\* /([\\/]ReactFabric|ReactNativeRenderer)-prod/
MatchesRendererProd(moduleName) ==
  \E i \in 1..Len(moduleName) :
    \/ moduleName[i] \in {"ReactNativeRenderer-prod", "ReactNativeRenderer-prod.js"}
    \/ i > 1 /\ moduleName[i] \in {"ReactFabric-prod", "ReactFabric-prod.js"}

\* /\.production(\.min)?\.js$/
MatchesProductionJs(moduleName) ==
  moduleName[Len(moduleName)] \in
    {"react.production.min.js", "react.production.js",
     "scheduler.production.min.js"}

\* The step without the test of the development context.
ProductionSkipStepInProduction(world, context, moduleName, platform) ==
  IF \/ /\ platform # "web"
        /\ OriginInReactNative(context.originModulePath)
        /\ MatchesRendererProd(moduleName)
     \/ /\ MatchesProductionJs(moduleName)
        /\ OriginInReactPackage(context.originModulePath)
  THEN Step(EmptyModule, <<>>, <<>>)
  ELSE Step(NoDecision, <<>>, <<>>)

ProductionSkipStep(world, context, moduleName, platform) ==
  IF ~context.dev THEN Step(NoDecision, <<>>, <<>>)
  ELSE IF \/ /\ platform # "web"
             /\ OriginInReactNative(context.originModulePath)
             /\ MatchesRendererProd(moduleName)
          \/ /\ MatchesProductionJs(moduleName)
             /\ OriginInReactPackage(context.originModulePath)
    THEN Step(EmptyModule, <<>>, <<>>)
    ELSE Step(NoDecision, <<>>, <<>>)

-----------------------------------------------------------------------------
(* Strategy 2: tsconfig paths.                                              *)

MatchesPattern(pattern, moduleName) ==
  IF pattern[Len(pattern)] = "*"
  THEN /\ Len(moduleName) >= Len(pattern)
       /\ SubSeq(moduleName, 1, Len(pattern) - 1) = SubSeq(pattern, 1, Len(pattern) - 1)
  ELSE pattern = moduleName

StarOf(pattern, moduleName) ==
  IF pattern[Len(pattern)] = "*"
  THEN SubSeq(moduleName, Len(pattern), Len(moduleName))
  ELSE <<>>

RECURSIVE Substitute(_, _)
Substitute(template, star) ==
  IF template = <<>> THEN <<>>
  ELSE (IF Head(template) = "*" THEN star ELSE <<Head(template)>>)
         \o Substitute(Tail(template), star)

RECURSIVE FirstMatch(_, _, _)
FirstMatch(paths, moduleName, i) ==
  IF i > Len(paths) THEN 0
  ELSE IF MatchesPattern(paths[i].pattern, moduleName) THEN i
  ELSE FirstMatch(paths, moduleName, i + 1)

RECURSIVE TryCandidates(_, _, _, _, _, _)
RECURSIVE AfterCandidate(_, _, _, _, _, _, _)
AfterCandidate(world, context, platform, config, candidates, calls, call) ==
  IF call.returned.kind = "null"
  THEN TryCandidates(world, context, platform, config, Tail(candidates),
                     Append(calls, call))
  ELSE Step(call.returned, Append(calls, call), <<>>)

TryCandidates(world, context, platform, config, candidates, calls) ==
  IF candidates = <<>> THEN Step(NoDecision, calls, <<>>)
  ELSE AfterCandidate(world, context, platform, config, candidates, calls,
                      OptionalCall(world, context, platform,
                                   pathJoin(config.baseUrl, Head(candidates))))

\* resolveWithTsConfigPaths(config, {originModulePath, moduleName}, resolve)
resolveWithTsConfigPaths(world, config, context, moduleName, platform) ==
  LET matched == FirstMatch(config.paths, moduleName, 1)
  IN IF IsRelative(moduleName) \/ IsAbsolute(moduleName) \/ matched = 0
     THEN Step(NoDecision, <<>>, <<>>)
     ELSE LET entry == config.paths[matched]
              star == StarOf(entry.pattern, moduleName)
              candidates == [i \in 1..Len(entry.templates) |->
                               Substitute(entry.templates[i], star)]
          IN TryCandidates(world, context, platform, config, candidates, <<>>)

\* The step of a pipeline that never has a mapping.
TsconfigPathsStepNever(world, context, moduleName, platform) ==
  Step(NoDecision, <<>>, <<>>)

TsconfigPathsStep(world, context, moduleName, platform) ==
  IF world.tsConfigResolve = NoConfig THEN Step(NoDecision, <<>>, <<>>)
  ELSE resolveWithTsConfigPaths(world, world.tsConfigResolve, context, moduleName,
                                platform)

-----------------------------------------------------------------------------
(* Strategy 3: Node.js externals.                                           *)

NODE_STDLIB_MODULES == {"os", "fs", "path"}

\* The module id of a Node.js built-in, <<>> when the name is none.
isNodeExternal(moduleName) ==
  IF Len(moduleName) # 1 THEN <<>>
  ELSE IF moduleName[1] \in NODE_STDLIB_MODULES THEN moduleName
  ELSE IF moduleName[1] = "node:os" THEN <<"os">>
  ELSE <<>>

getNodeExternalModuleId(fromModule, moduleId) ==
  pathRelative(pathDirname(fromModule),
               pathJoin(ProjectRoot, METRO_EXTERNALS_FOLDER \o moduleId \o <<"index.js">>))

\* The branch without the empty module: a miss is never shimmed.
NodeShimNever(platform, call) ==
  Step(call.returned, <<call>>, <<>>)

\* The branch without the platform test: a miss is shimmed everywhere.
NodeShimEverywhere(platform, call) ==
  Step(IF call.returned.kind = "null" THEN EmptyModule ELSE call.returned,
       <<call>>, <<>>)

\* The non-server branch once the optional resolve has answered.
NodeShim(platform, call) ==
  IF call.returned.kind = "null" /\ platform # "web"
  THEN Step(NoDecision, <<call>>, <<>>)
  ELSE Step(IF call.returned.kind = "null" THEN EmptyModule ELSE call.returned,
            <<call>>, <<>>)

\* The step with the optional resolve ahead of the environment test.
NodeExternalsStepOptionalFirst(world, context, moduleName, platform) ==
  IF isNodeExternal(moduleName) = <<>> THEN Step(NoDecision, <<>>, <<>>)
  ELSE NodeShim(platform, OptionalCall(world, context, platform, moduleName))

NodeExternalsStep(world, context, moduleName, platform) ==
  LET isServer == context.customResolverOptions.environment \in {"node", "react-server"}
      moduleId == isNodeExternal(moduleName)
  IN IF moduleId = <<>> THEN Step(NoDecision, <<>>, <<>>)
     ELSE IF ~isServer
       THEN NodeShim(platform, OptionalCall(world, context, platform, moduleName))
       ELSE StrictStep(world, context, platform,
                       getNodeExternalModuleId(context.originModulePath, moduleId),
                       <<>>)

-----------------------------------------------------------------------------
(* Strategy 4: custom externals.                                            *)

NodeExactExternals ==
  {"react", "react-helmet-async", "debug", "acorn-loose", "acorn",
   "hyphenate-style-name", "color", "color-string", "color-convert",
   "color-name", "fontfaceobserver", "fast-deep-equal", "query-string",
   "escape-string-regexp", "invariant", "postcss-value-parser", "memoize-one",
   "nullthrows", "strict-uri-encode", "decode-uri-component", "split-on-first",
   "filter-obj", "warn-once", "simple-swizzle", "is-arrayish"}

\* The regular expression of the node rule in standard Node.js environments.
IsNodeExternalName(moduleName) ==
  LET n == Len(moduleName)
  IN \/ n = 1 /\ moduleName[1] \in NodeExactExternals
     \/ moduleName[1] \in {"source-map-support", "react-dom"}
     \/ n >= 2 /\ moduleName[1] \in {"@radix-ui", "inline-style-prefixer"}
     \/ n >= 3 /\ moduleName[1] = "@babel" /\ moduleName[2] = "runtime"
     \/ n >= 3 /\ moduleName[1] = "css-in-js-utils" /\ moduleName[2] = "lib"

ReactServerExactExternals ==
  {"debug", "metro", "acorn-loose", "acorn", "chalk", "ws", "ansi-styles",
   "supports-color", "color-convert", "has-flag", "utf-8-validate", "color-name"}

\* The regular expression of the node rule in the react-server environment.
IsReactServerExternalName(moduleName) ==
  LET n == Len(moduleName)
  IN \/ n = 1 /\ moduleName[1] \in ReactServerExactExternals
     \/ moduleName[1] = "source-map-support"
     \/ n >= 3 /\ moduleName[1] = "@babel" /\ moduleName[2] = "runtime"
     \/ moduleName = <<"metro-runtime", "src", "modules", "HMRClient">>
     \/ moduleName = <<"react-refresh", "runtime">>
     \/ n >= 3 /\ moduleName[1] = "@remix-run" /\ moduleName[2] = "node"

WeakExactExternals ==
  {"deprecated-react-native-prop-types", "invariant", "nullthrows",
   "memoize-one", "react", "scheduler", "react-is", "expo-modules-core",
   "react-native"}

WebExports ==
  {"Platform", "NativeEventEmitter", "StyleSheet", "NativeModules",
   "DeviceEventEmitter", "Text", "View"}

\* The three regular expressions of the weak rule.
IsWeakExternalName(moduleName) ==
  LET n == Len(moduleName)
  IN \/ n = 1 /\ moduleName[1] \in WeakExactExternals
     \/ moduleName[1] \in {"styleq", "react-dom", "metro-runtime"}
     \/ moduleName = <<"@react-native", "assets-registry", "registry">>
     \/ moduleName = <<"@react-native", "normalize-color">>
     \/ moduleName = <<"react", "jsx-dev-runtime">>
     \/ /\ n = 4
        /\ SubSeq(moduleName, 1, 3) = <<"react-native-web", "dist", "exports">>
        /\ moduleName[4] \in WebExports
     \/ moduleName = <<"@babel", "runtime", "helpers", "wrapNativeSuper">>

\* The node rule without its exporting condition.
NodeRuleMatchWhenExporting(context, moduleName, platform) ==
  IF ~isServerEnvironment(context.customResolverOptions.environment) THEN FALSE
  ELSE IF context.customResolverOptions.environment = "react-server"
    THEN IsReactServerExternalName(moduleName)
    ELSE IsNodeExternalName(moduleName)

NodeRuleMatch(context, moduleName, platform) ==
  IF \/ context.customResolverOptions.exporting
     \/ ~isServerEnvironment(context.customResolverOptions.environment)
  THEN FALSE
  ELSE IF context.customResolverOptions.environment = "react-server"
    THEN IsReactServerExternalName(moduleName)
    ELSE IsNodeExternalName(moduleName)

\* The weak rule without its client-boundary condition.
WeakRuleMatchAnyBoundary(context, moduleName, platform) ==
  IF \/ context.customResolverOptions.exporting
     \/ isServerEnvironment(context.customResolverOptions.environment)
  THEN FALSE
  ELSE IsWeakExternalName(moduleName)

WeakRuleMatch(context, moduleName, platform) ==
  IF \/ context.customResolverOptions.exporting
     \/ isServerEnvironment(context.customResolverOptions.environment)
     \/ ~context.customResolverOptions.clientboundary
  THEN FALSE
  ELSE IsWeakExternalName(moduleName)

externals == << [match |-> "node", replace |-> "node"],
                [match |-> "weak", replace |-> "weak"] >>

ExternalMatch(external, context, moduleName, platform) ==
  IF external.match = "node" THEN NodeRuleMatch(context, moduleName, platform)
  ELSE WeakRuleMatch(context, moduleName, platform)

WeakContents(moduleName) ==
  <<109, 111, 100, 117, 108, 101, 46, 101, 120, 112, 111, 114, 116, 115, 61, 47, 42>>
    \o NameCodes(moduleName)
    \o <<42, 47, 95, 95, 114, 40, 114, 101, 113, 117, 105, 114, 101, 46, 114,
         101, 115, 111, 108, 118, 101, 87, 101, 97, 107, 40, 39>>
    \o NameCodes(moduleName) \o <<39, 41, 41>>

NodeContents(moduleName) ==
  <<109, 111, 100, 117, 108, 101, 46, 101, 120, 112, 111, 114, 116, 115, 61, 36,
    36, 114, 101, 113, 117, 105, 114, 101, 95, 101, 120, 116, 101, 114, 110, 97,
    108, 40, 39>>
    \o NameCodes(moduleName) \o <<39, 41>>

fastHashMemoized(cache, str) ==
  IF str \in DOMAIN cache THEN cache[str] ELSE fastHash(str)

\* The stub of an external: its contents, where it is materialized, and the
\* module name the requesting file reaches it by.
StubRedirect(context, contents, generatedModuleId, absoluteFilePath) ==
  [contents |-> contents,
   generatedModuleId |-> generatedModuleId,
   absoluteFilePath |-> absoluteFilePath,
   redirectedModuleName |->
     pathRelative(pathDirname(context.originModulePath), absoluteFilePath)]

\* The stub placed next to the requesting file.
StubFileBesideOrigin(context, contents, generatedModuleId) ==
  StubRedirect(context, contents, generatedModuleId,
               pathJoin(pathDirname(context.originModulePath),
                        METRO_EXTERNALS_FOLDER
                          \o <<ToString(generatedModuleId), "index.js">>))

StubFile(context, contents, generatedModuleId) ==
  StubRedirect(context, contents, generatedModuleId,
               pathJoin(ProjectRoot,
                        METRO_EXTERNALS_FOLDER
                          \o <<ToString(generatedModuleId), "index.js">>))

\* The module id salted with the depth of the requesting file.
StubOfPerDepth(world, context, contents) ==
  StubFile(context, contents,
           fastHashMemoized(world.hashCache, contents) + Len(context.originModulePath))

StubOf(world, context, contents) ==
  StubFile(context, contents, fastHashMemoized(world.hashCache, contents))

\* Every stub written as a Node.js require.
ExternalStubAlwaysNode(world, context, moduleName, replace) ==
  StubOf(world, context, NodeContents(moduleName))

ExternalStub(world, context, moduleName, replace) ==
  StubOf(world, context,
         IF replace = "weak" THEN WeakContents(moduleName) ELSE NodeContents(moduleName))

\* The stub resolved before the bundler knows of it.
ResolveStubUndeclared(world, context, platform, stub) ==
  StrictStep(world, context, platform, stub.redirectedModuleName, <<stub>>)

\* tapVirtualModuleMemoized(...) then getStrictResolver(...)(redirectedModuleName)
ResolveStub(world, context, platform, stub) ==
  StrictStep([world EXCEPT !.virtual = @ \cup {stub.absoluteFilePath}], context,
             platform, stub.redirectedModuleName, <<stub>>)

RECURSIVE ExternalsFrom(_, _, _, _, _)
\* The loop passing over a rule whose replace kind it does not know.
ExternalsFromSkippingUnknown(i, world, context, moduleName, platform) ==
  IF i > Len(world.externals) THEN Step(NoDecision, <<>>, <<>>)
  ELSE IF \/ ~ExternalMatch(world.externals[i], context, moduleName, platform)
          \/ world.externals[i].replace \notin {"empty", "weak", "node"}
    THEN ExternalsFrom(i + 1, world, context, moduleName, platform)
  ELSE IF world.externals[i].replace = "empty" THEN Step(EmptyModule, <<>>, <<>>)
  ELSE ResolveStub(world, context, platform,
                   ExternalStub(world, context, moduleName,
                                world.externals[i].replace))

ExternalsFrom(i, world, context, moduleName, platform) ==
  IF i > Len(world.externals) THEN Step(NoDecision, <<>>, <<>>)
  ELSE IF ~ExternalMatch(world.externals[i], context, moduleName, platform)
    THEN ExternalsFrom(i + 1, world, context, moduleName, platform)
  ELSE IF world.externals[i].replace = "empty" THEN Step(EmptyModule, <<>>, <<>>)
  ELSE IF world.externals[i].replace \in {"weak", "node"}
    THEN ResolveStub(world, context, platform,
                     ExternalStub(world, context, moduleName,
                                  world.externals[i].replace))
  ELSE Step(Thrown("CommandError", moduleName), <<>>, <<>>)

CustomExternalsStep(world, context, moduleName, platform) ==
  ExternalsFrom(1, world, context, moduleName, platform)

-----------------------------------------------------------------------------
(* Strategy 5: basic moduleId aliases.                                      *)

\* The table without its 'react-native/index' entry.
aliasesWithoutIndex ==
  { [platform |-> "web", moduleName |-> <<"react-native">>,
     alias |-> <<"react-native-web">>] }

aliases ==
  { [platform |-> "web", moduleName |-> <<"react-native">>,
     alias |-> <<"react-native-web">>],
    [platform |-> "web", moduleName |-> <<"react-native", "index">>,
     alias |-> <<"react-native-web">>] }

\* The array after the conditional push: resolveFrom.silent finds
\* '@expo/vector-icons' from the project root or does not.  In the
\* replacement, "$n" stands where the text has $n.
universalAliases(lay) ==
  IF lay.vectorIcons
  THEN << [matcher |-> "react-native-vector-icons",
           alias |-> <<"@expo", "vector-icons", "$1">>] >>
  ELSE <<>>

\* table[platform][moduleName] where the table has the platform: the entry
\* of the table, else what the object inherits under that key, else <<>>
\* (undefined).
AliasOf(table, platform, moduleName) ==
  IF \E rule \in table : rule.platform = platform /\ rule.moduleName = moduleName
  THEN (CHOOSE rule \in table :
          rule.platform = platform /\ rule.moduleName = moduleName).alias
  ELSE IF /\ \E rule \in table : rule.platform = platform
          /\ Len(moduleName) = 1
          /\ moduleName[1] \in ObjectPrototypeKeys
    THEN Inherited(moduleName[1])
    ELSE <<>>

NoMatch == [matched |-> FALSE, groups |-> <<>>]

Group(text) == [defined |-> TRUE, text |-> text]

Undefined == [defined |-> FALSE, text |-> <<>>]

\* First segments that start with "react-native-vector-icons" or with
\* "react-native", other than these names themselves.
VectorIconsPrefixed == {"react-native-vector-icons-extra"}

ReactNativePrefixed ==
  {"react-native-web", "react-native-vector-icons", "react-native-vector-icons-extra"}

\* A match of /^<name>(\/.*)?/: the name must start the specifier, and
\* group 1 is what follows the name when that starts with a slash.
PrefixMatch(name, longer, moduleName) ==
  IF moduleName[1] = name
  THEN [matched |-> TRUE,
        groups |-> << IF Len(moduleName) > 1 THEN Group(Tail(moduleName))
                      ELSE Undefined >>]
  ELSE IF moduleName[1] \in longer
    THEN [matched |-> TRUE, groups |-> <<Undefined>>]
    ELSE NoMatch

\* moduleName.match(matcher)
Match(matcher, moduleName) ==
  IF matcher = "react-native-vector-icons"
  THEN PrefixMatch("react-native-vector-icons", VectorIconsPrefixed, moduleName)
  ELSE PrefixMatch("react-native", ReactNativePrefixed, moduleName)

GroupIndex(token) ==
  CASE token = "$1" -> 1 [] token = "$2" -> 2 [] OTHER -> 0

\* match[parseInt(index, 10)] ?? ''
GroupText(match, index) ==
  IF index <= Len(match.groups) /\ match.groups[index].defined
  THEN match.groups[index].text
  ELSE <<>>

\* alias.replace(/\$(\d+)/g, ...)
RECURSIVE Replace(_, _)
Replace(alias, match) ==
  IF alias = <<>> THEN <<>>
  ELSE (IF GroupIndex(Head(alias)) = 0 THEN <<Head(alias)>>
        ELSE GroupText(match, GroupIndex(Head(alias))))
         \o Replace(Tail(alias), match)

\* The loop over the universal aliases.
RECURSIVE UniversalFrom(_, _, _, _, _)
UniversalFrom(i, world, context, moduleName, platform) ==
  IF i > Len(world.universalAliases) THEN Step(NoDecision, <<>>, <<>>)
  ELSE IF ~Match(world.universalAliases[i].matcher, moduleName).matched
    THEN UniversalFrom(i + 1, world, context, moduleName, platform)
    ELSE StrictStep(world, context, platform,
                    Replace(world.universalAliases[i].alias,
                            Match(world.universalAliases[i].matcher, moduleName)),
                    <<>>)

AliasesStep(world, context, moduleName, platform) ==
  IF AliasOf(world.aliases, platform, moduleName) # <<>>
  THEN StrictStep(world, context, platform,
                  AliasOf(world.aliases, platform, moduleName), <<>>)
  ELSE UniversalFrom(1, world, context, moduleName, platform)

-----------------------------------------------------------------------------
(* Strategy 6: event-target-shim.                                           *)

\* The rewrite without its platform test.
EventTargetShimStepEveryPlatform(world, context, moduleName, platform) ==
  IF moduleName = <<"event-target-shim">>
  THEN StrictStep(world, context, platform,
                  <<"event-target-shim", "dist", "event-target-shim.js">>, <<>>)
  ELSE Step(NoDecision, <<>>, <<>>)

EventTargetShimStep(world, context, moduleName, platform) ==
  IF platform # "web" /\ moduleName = <<"event-target-shim">>
  THEN StrictStep(world, context, platform,
                  <<"event-target-shim", "dist", "event-target-shim.js">>, <<>>)
  ELSE Step(NoDecision, <<>>, <<>>)

-----------------------------------------------------------------------------
(* Strategy 7: the underlying resolver and the post-resolution rewrites.    *)

shouldAliasAssetRegistryForWeb(platform, result) ==
  /\ platform = "web"
  /\ result.type = "sourceFile"
  /\ EndsWith(normalizeSlashes(result.filePath),
              <<"react-native-web", "dist", "modules", "AssetRegistry", "index.js">>)

ShimOr(world, shimPath, filePath) ==
  IF existsSync(world.layout, shimPath) THEN shimPath ELSE filePath

\* The path after the shim lookup in `folder`.
Shimmed(world, folder, filePath) ==
  ShimOr(world,
         Native(world.layout,
                pathJoin(folder, DropToNodeModules(normalizeSlashes(filePath)))),
         filePath)

ShimmedInNodeModules(world, folder, filePath) ==
  IF Includes(filePath, "node_modules") THEN Shimmed(world, folder, filePath)
  ELSE filePath

\* The native branch without the test of the canary mode.
RewrittenCanaryAlways(world, platform, result) ==
  IF result.type # "sourceFile" THEN result
  ELSE IF platform = "web"
    THEN [result EXCEPT !.filePath =
            ShimmedInNodeModules(world, shimsFolder,
                                 IF shouldAliasAssetRegistryForWeb(platform, result)
                                 THEN Native(world.layout, assetRegistryPath)
                                 ELSE result.filePath)]
    ELSE [result EXCEPT !.filePath =
            ShimmedInNodeModules(world, canaryFolder, result.filePath)]

\* The rewrite without the test of the result's type.
RewrittenAnyType(world, platform, result) ==
  IF result.type = "empty" THEN result
  ELSE IF platform = "web"
    THEN [result EXCEPT !.filePath =
            ShimmedInNodeModules(world, shimsFolder,
                                 IF shouldAliasAssetRegistryForWeb(platform, result)
                                 THEN Native(world.layout, assetRegistryPath)
                                 ELSE result.filePath)]
    ELSE IF world.options.isReactCanaryEnabled
      THEN [result EXCEPT !.filePath =
              ShimmedInNodeModules(world, canaryFolder, result.filePath)]
      ELSE result

\* doResolve's result, rewritten.
Rewritten(world, platform, result) ==
  IF result.type # "sourceFile" THEN result
  ELSE IF platform = "web"
    THEN [result EXCEPT !.filePath =
            ShimmedInNodeModules(world, shimsFolder,
                                 IF shouldAliasAssetRegistryForWeb(platform, result)
                                 THEN Native(world.layout, assetRegistryPath)
                                 ELSE result.filePath)]
    ELSE IF world.options.isReactCanaryEnabled
      THEN [result EXCEPT !.filePath =
              ShimmedInNodeModules(world, canaryFolder, result.filePath)]
      ELSE result

PostResolved(world, platform, moduleName, result) ==
  Step(Rewritten(world, platform, result),
       <<Call("strict", moduleName, result, result)>>, <<>>)

\* The step with failures of the underlying resolver turned into the empty
\* module.
PostResolutionStepSwallowing(world, context, moduleName, platform) ==
  IF getStrictResolver(world, context, platform, moduleName).kind = "throw"
  THEN Step(EmptyModule, <<>>, <<>>)
  ELSE PostResolved(world, platform, moduleName,
                    getStrictResolver(world, context, platform, moduleName))

PostResolutionStep(world, context, moduleName, platform) ==
  PostResolved(world, platform, moduleName,
               getStrictResolver(world, context, platform, moduleName))

-----------------------------------------------------------------------------
(* The chain of strategies (withMetroResolvers) and one resolution.         *)

\* The list with the alias table ahead of the external rules.
StrategiesAliasesEarly ==
  <<"productionSkip", "tsconfigPaths", "nodeExternals", "aliases",
    "customExternals", "eventTargetShim", "postResolution">>

Strategies ==
  <<"productionSkip", "tsconfigPaths", "nodeExternals", "customExternals",
    "aliases", "eventTargetShim", "postResolution">>

RunStrategy(id, world, context, moduleName, platform) ==
  CASE id = "productionSkip" -> ProductionSkipStep(world, context, moduleName, platform)
    [] id = "tsconfigPaths" -> TsconfigPathsStep(world, context, moduleName, platform)
    [] id = "nodeExternals" -> NodeExternalsStep(world, context, moduleName, platform)
    [] id = "customExternals" -> CustomExternalsStep(world, context, moduleName, platform)
    [] id = "aliases" -> AliasesStep(world, context, moduleName, platform)
    [] id = "eventTargetShim" -> EventTargetShimStep(world, context, moduleName, platform)
    [] id = "postResolution" -> PostResolutionStep(world, context, moduleName, platform)

Consulted(id, step) ==
  [strategy |-> id, decision |-> step.decision, calls |-> step.calls,
   taps |-> step.taps]

\* The resolvers are tried in order; the first decision (or failure) ends the
\* request.  Past the last one the upstream resolver decides.
RECURSIVE withMetroResolvers(_, _, _, _, _, _)
RECURSIVE AfterStrategy(_, _, _, _, _, _, _)
AfterStrategy(i, world, context, moduleName, platform, trace, step) ==
  IF step.decision.kind = "null"
  THEN withMetroResolvers(i + 1, world, context, moduleName, platform,
                          Append(trace, Consulted(Strategies[i], step)))
  ELSE [outcome |-> step.decision,
        trace |-> Append(trace, Consulted(Strategies[i], step))]

withMetroResolvers(i, world, context, moduleName, platform, trace) ==
  IF i > Len(Strategies)
  THEN [outcome |-> getStrictResolver(world, context, platform, moduleName),
        trace |-> trace]
  ELSE AfterStrategy(i, world, context, moduleName, platform, trace,
                     RunStrategy(Strategies[i], world, context, moduleName, platform))

\* A mapping read in two parts around a reload: the paths the pipeline has,
\* with the base URL of the config being loaded.
WorldTorn ==
  [layout |-> layout, options |-> options, externals |-> rules,
   aliases |-> aliasTables.aliases,
   universalAliases |-> aliasTables.universalAliases,
   tsConfigResolve |->
     IF /\ tsConfigResolve # NoConfig
        /\ loading # <<>>
        /\ "baseUrl" \in DOMAIN loading[1]
        /\ loading[1].hasBaseUrl
     THEN [tsConfigResolve EXCEPT !.baseUrl = loading[1].baseUrl]
     ELSE tsConfigResolve,
   virtual |-> DOMAIN virtualModules, hashCache |-> hashCache]

World ==
  [layout |-> layout, options |-> options, externals |-> rules,
   aliases |-> aliasTables.aliases,
   universalAliases |-> aliasTables.universalAliases,
   tsConfigResolve |-> tsConfigResolve, virtual |-> DOMAIN virtualModules,
   hashCache |-> hashCache]

Answer(req, contexts, run) ==
  [request |-> req, outcome |-> run.outcome, trace |-> run.trace,
   context |-> contexts.returned, received |-> contexts.received]

ResolveWith(world, req, contexts) ==
  Answer(req, contexts,
         withMetroResolvers(1, world, contexts.returned, req.moduleName,
                            req.platform, <<>>))

\* config.resolver.resolveRequest(context, moduleName, platform)
ResolveRequest(world, cache, req) ==
  ResolveWith(world, req,
              ContextCallback(world.options, cache, IncomingContext(req),
                              req.platform))

RECURSIVE TapsOf(_)
TapsOf(trace) ==
  IF trace = <<>> THEN <<>> ELSE Head(trace).taps \o TapsOf(Tail(trace))

-----------------------------------------------------------------------------
(* Bounds and the inputs the behaviours draw from.                          *)

MaxCount == 2

MaxLoading == 2

NoCall == [none |-> TRUE]

Platforms == {"web", "ios", "android"}

Environments == {"client", "node", "react-server"}

RootFile == ProjectRoot \o <<"App.js">>

AppFile == ProjectRoot \o <<"app", "index.js">>

ReactNativeFile == NodeModules \o <<"react-native", "Libraries", "Core.js">>

ReactFile == NodeModules \o <<"react", "index.js">>

Origins == {RootFile, AppFile, ReactNativeFile, ReactFile}

ModuleNames ==
  { <<"react-native">>, <<"react-native", "index">>, <<"react-native-web">>,
    <<"os">>, <<"react">>, <<"debug">>, <<"event-target-shim">>,
    <<"@app", "widgets">>, <<".", "cjs", "react.production.min.js">>,
    <<".", "widgets">> }

SourceExtLists == { <<"ts", "tsx", "mjs", "js", "jsx", "json">> }

Requests ==
  [moduleName : ModuleNames, originModulePath : Origins, platform : Platforms,
   environment : Environments, exporting : BOOLEAN, clientboundary : BOOLEAN,
   dev : BOOLEAN, sourceExts : SourceExtLists]

\* What loadTsConfigPathsAsync can yield.
TsApp ==
  [hasPaths |-> TRUE, hasBaseUrl |-> FALSE, baseUrl |-> <<>>,
   paths |-> << [pattern |-> <<"@app", "*">>,
                 templates |-> << <<".", "missing", "*">>, <<".", "src", "*">> >>] >>]

TsStar ==
  [hasPaths |-> TRUE, hasBaseUrl |-> TRUE, baseUrl |-> ProjectRoot,
   paths |-> << [pattern |-> <<"*">>, templates |-> << <<".", "src", "*">> >>] >>]

TsEmpty == [hasPaths |-> TRUE, hasBaseUrl |-> FALSE, baseUrl |-> <<>>, paths |-> <<>>]

TsBaseOnly ==
  [hasPaths |-> FALSE, hasBaseUrl |-> TRUE, baseUrl |-> ProjectRoot \o <<"src">>,
   paths |-> <<>>]

TsConfigs == {NoConfig, TsApp, TsStar, TsEmpty, TsBaseOnly}

\* resolveWithTsConfigPaths.bind(..., {paths, baseUrl, hasBaseUrl})
Bound(tsconfig) ==
  [paths |-> tsconfig.paths,
   baseUrl |-> IF tsconfig.hasBaseUrl THEN tsconfig.baseUrl ELSE ProjectRoot,
   hasBaseUrl |-> tsconfig.hasBaseUrl]

\* tsConfigResolve as withExtendedResolver first sets it.
ConstructedResolve(opts, tsconfig) ==
  IF /\ opts.isTsconfigPathsEnabled
     /\ tsconfig # NoConfig
     /\ (tsconfig.hasPaths \/ tsconfig.hasBaseUrl)
  THEN Bound(tsconfig)
  ELSE NoConfig

\* The reload handler with the test the construction makes.
ReloadedResolveAsConstructed(tsConfigPaths) ==
  IF tsConfigPaths # NoConfig /\ (tsConfigPaths.hasPaths \/ tsConfigPaths.hasBaseUrl)
  THEN Bound(tsConfigPaths)
  ELSE NoConfig

\* tsConfigResolve as the reload handler sets it.
ReloadedResolve(tsConfigPaths) ==
  IF tsConfigPaths # NoConfig /\ tsConfigPaths.hasPaths /\ Len(tsConfigPaths.paths) > 0
  THEN Bound(tsConfigPaths)
  ELSE NoConfig

\* A watcher started for every session with path aliases enabled.
WatchingAnySession(opts) == opts.isTsconfigPathsEnabled

Watching(opts) ==
  ~opts.isExporting /\ opts.isInteractive /\ opts.isTsconfigPathsEnabled

\* A load that rejects: its `then` callback never runs.
LoadFailed == [failed |-> TRUE]

Nothing == [nothing |-> TRUE]

\* The hooks installed whenever the session is interactive.
InstalledExitHooksWhenInteractive(opts) ==
  IF ~opts.isExporting /\ opts.isInteractive THEN <<"stopObserving">> ELSE <<>>

\* installExitHooks(() => { configWatcher.stopObserving(); })
InstalledExitHooks(opts) ==
  IF Watching(opts) THEN <<"stopObserving">> ELSE <<>>

\* The watcher as withExtendedResolver leaves it, with nothing notified or
\* applied yet.
ConstructedWatcher(opts) ==
  [started |-> Watching(opts), observing |-> Watching(opts),
   exitHooks |-> InstalledExitHooks(opts), exited |-> FALSE,
   notified |-> Nothing, applied |-> Nothing, previous |-> Nothing]

OptionSets ==
  [isTsconfigPathsEnabled : {TRUE}, isExporting : {FALSE}, isInteractive : {TRUE},
   isReactCanaryEnabled : BOOLEAN, EXPO_METRO_NO_MAIN_FIELD_OVERRIDE : {FALSE}]

-----------------------------------------------------------------------------
(* The operations.                                                          *)

Bump(counts, key) ==
  IF key \in DOMAIN counts
  THEN [counts EXCEPT ![key] = IF @ < MaxCount THEN @ + 1 ELSE @]
  ELSE (key :> 1) @@ counts

\* tapVirtualModuleMemoized(absoluteFilePath, contents): the module is
\* materialized on the first declaration of its hash-derived path only.
RECURSIVE Tapped(_, _)
Tapped(registry, taps) ==
  IF taps = <<>> THEN registry
  ELSE LET stub == Head(taps)
           key == stub.absoluteFilePath
           next ==
             IF key \in registry.tapCache THEN registry
             ELSE [registry EXCEPT
                     !.tapCache = @ \cup {key},
                     !.virtualModules =
                        (stub.absoluteFilePath :> stub.contents) @@ @,
                     !.writes = Bump(@, stub.contents)]
       IN Tapped([next EXCEPT
                    !.declared = Bump(@, stub.contents),
                    !.hashCache = (stub.contents :> stub.generatedModuleId) @@ @],
                 Tail(taps))

Registry ==
  [tapCache |-> tapCache, virtualModules |-> virtualModules, writes |-> writes,
   declared |-> declared, hashCache |-> hashCache]

Commit(req, call, registry) ==
  /\ ~configWatcher.exited
  /\ last' = call
  /\ nodejsSourceExtensions' =
       NextExtensionCache(nodejsSourceExtensions, IncomingContext(req))
  /\ tapCache' = registry.tapCache
  /\ virtualModules' = registry.virtualModules
  /\ writes' = registry.writes
  /\ declared' = registry.declared
  /\ hashCache' = registry.hashCache
  /\ baseline' = IF req # request THEN baseline
                 ELSE IF baseline = NoCall
                   THEN [outcome |-> call.outcome, taps |-> TapsOf(call.trace),
                         repeated |-> FALSE]
                   ELSE [baseline EXCEPT !.repeated = TRUE]

Answered(req, call) == Commit(req, call, Tapped(Registry, TapsOf(call.trace)))

\* One call of the resolver the pipeline installs, with all its effects.
Resolve(req) == Answered(req, ResolveRequest(World, nodejsSourceExtensions, req))

Empty == [x \in {} |-> 0]

\* The globals before the RSC client has run.
NoGlobals ==
  [NODE_ENV |-> "development", OS |-> "web", bundleLoadedFromServer |-> TRUE,
   __WAKU_PREFETCHED__ |-> Empty,
   __WAKU_RSC_RELOAD_LISTENERS__ |-> <<>>,
   __WAKU_REFETCH_RSC__ |-> NoCall,
   __WAKU_REFETCH_ROUTE__ |-> NoCall]

\* Nothing but the pipeline runs.
PipelineOnly ==
  /\ invocation = NoCall
  /\ fetchCache = <<>>
  /\ globalThis = NoGlobals
  /\ fetches = <<>>

PipelineWith(requests, layouts, optionSets, tsconfigs) ==
  /\ request \in requests
  /\ layout \in layouts
  /\ options \in optionSets
  /\ \E tsconfig \in tsconfigs : tsConfigResolve = ConstructedResolve(options, tsconfig)
  /\ loading = <<>>
  /\ configWatcher = ConstructedWatcher(options)
  /\ virtualModules = Empty
  /\ tapCache = {}
  /\ hashCache = Empty
  /\ nodejsSourceExtensions = NotCached
  /\ writes = Empty
  /\ declared = Empty
  /\ last = NoCall
  /\ baseline = NoCall

InitWith(requests, layouts, optionSets, tsconfigs) ==
  /\ PipelineWith(requests, layouts, optionSets, tsconfigs)
  /\ PipelineOnly

\* The alias tables withExtendedResolver builds.
ConstructedAliases(lay) ==
  [aliases |-> aliases, universalAliases |-> universalAliases(lay)]

\* Every request, resolved once by a freshly built pipeline.
Init ==
  /\ InitWith(Requests, Layouts, OptionSets, {NoConfig, TsApp, TsStar})
  /\ rules = externals
  /\ aliasTables = ConstructedAliases(layout)

\* What a call of the resolver leaves alone.
settings ==
  <<request, layout, options, rules, aliasTables, tsConfigResolve, loading,
    configWatcher, elsewhere>>

ResolveOnce == last = NoCall /\ Resolve(request) /\ UNCHANGED settings

Next == ResolveOnce

Spec == Init /\ [][Next]_vars

-----------------------------------------------------------------------------
(* Sequences of requests on one pipeline, with tsconfig reloads in between. *)

SeqModuleNames == {<<"os">>, <<"react">>, <<"@app", "widgets">>}

SeqRequests ==
  [moduleName : SeqModuleNames, originModulePath : {AppFile, ReactNativeFile},
   platform : {"web", "ios"}, environment : {"client", "node"},
   exporting : {FALSE}, clientboundary : BOOLEAN, dev : {TRUE},
   sourceExts : SourceExtLists]

\* Requests of other modules that share the pipeline's caches.
Interferers ==
  { [moduleName |-> <<"debug">>, originModulePath |-> ReactFile,
     platform |-> "ios", environment |-> "node", exporting |-> FALSE,
     clientboundary |-> FALSE, dev |-> TRUE,
     sourceExts |-> <<"js", "json">>] }

\* What a reload may find in tsconfig.json.
ReloadConfigs == {TsStar}

OtherFiles == {RootFile, ReactFile}

SeqInit ==
  /\ InitWith(SeqRequests,
              [optional : {"installed", "missing"}, overrides : {TRUE},
               vectorIcons : {TRUE}, win32 : {FALSE}, reloads : {ReloadConfigs}],
              {o \in OptionSets : ~o.isReactCanaryEnabled}, {NoConfig, TsApp})
  /\ rules = externals
  /\ aliasTables = ConstructedAliases(layout)

\* The bundler asks for `request`.
ResolveRequested == Resolve(request) /\ UNCHANGED settings

\* Another file asks for the module `request` names.
ResolveFromOtherFile ==
  \E origin \in OtherFiles :
    /\ Resolve([request EXCEPT !.originModulePath = origin])
    /\ UNCHANGED settings

ResolveOther == \E req \in Interferers : Resolve(req) /\ UNCHANGED settings

\* The watcher fires: loadTsConfigPathsAsync starts and will yield tsConfigPaths.
ConfigChanged ==
  /\ configWatcher.observing
  /\ Len(loading) < MaxLoading
  /\ \E tsConfigPaths \in layout.reloads :
       /\ loading' = Append(loading, tsConfigPaths)
       /\ configWatcher' = [configWatcher EXCEPT !.notified = tsConfigPaths]
  /\ baseline' = NoCall
  /\ UNCHANGED <<request, layout, options, rules, aliasTables, tsConfigResolve, virtualModules,
                 tapCache, hashCache, nodejsSourceExtensions, writes, declared,
                 last, elsewhere>>

\* A handler that never assigns.
SettledNever(current, loaded) == current

\* tsConfigResolve after the load that yields `loaded` has settled.
Settled(current, loaded) ==
  IF loaded = LoadFailed THEN current ELSE ReloadedResolve(loaded)

Without(pending, i) ==
  SubSeq(pending, 1, i - 1) \o SubSeq(pending, i + 1, Len(pending))

\* The i-th pending load settles: if it is fulfilled its `then` callback runs.
ReloadLoadedAt(i) ==
    /\ i \in 1..Len(loading)
    /\ ~configWatcher.exited
    /\ tsConfigResolve' = Settled(tsConfigResolve, loading[i])
    /\ loading' = Without(loading, i)
    /\ configWatcher' = [configWatcher EXCEPT !.applied = loading[i],
                                              !.previous = configWatcher.applied]
    /\ baseline' = NoCall
    /\ UNCHANGED <<request, layout, options, rules, aliasTables, virtualModules, tapCache,
                   hashCache, nodejsSourceExtensions, writes, declared, last,
                   elsewhere>>

\* A pending load settles, in whatever order the loads finish.
ReloadLoaded == \E i \in 1..Len(loading) : ReloadLoadedAt(i)

\* The process exits: the installed exit hooks run.
ProcessExit ==
  /\ ~configWatcher.exited
  /\ configWatcher' =
       [configWatcher EXCEPT
          !.exited = TRUE,
          !.observing = IF \E h \in 1..Len(configWatcher.exitHooks) :
                             configWatcher.exitHooks[h] = "stopObserving"
                        THEN FALSE ELSE @]
  /\ UNCHANGED <<request, layout, options, rules, aliasTables, tsConfigResolve, loading,
                 virtualModules, tapCache, hashCache, nodejsSourceExtensions, writes,
                 declared, last, baseline, elsewhere>>

SeqNext ==
  \/ ResolveRequested
  \/ ResolveFromOtherFile
  \/ ResolveOther
  \/ ConfigChanged
  \/ ReloadLoaded

SpecSeq == SeqInit /\ [][SeqNext]_vars

-----------------------------------------------------------------------------
(* The custom externals step over tables of rules: the table the pipeline  *)
(* ships, and tables with an 'empty' rule, with two rules that match the    *)
(* same requests, and with a replace kind the step does not know.           *)

RuleTables ==
  { externals,
    << [match |-> "weak", replace |-> "empty"],
       [match |-> "weak", replace |-> "weak"] >>,
    << [match |-> "node", replace |-> "node"],
       [match |-> "weak", replace |-> "shim"] >>,
    << [match |-> "node", replace |-> "shim"],
       [match |-> "node", replace |-> "node"] >> }

RuleRequests ==
  [moduleName : {<<"react">>, <<"react-native">>, <<"debug">>},
   originModulePath : {AppFile, ReactNativeFile}, platform : {"web", "ios"},
   environment : Environments, exporting : BOOLEAN, clientboundary : BOOLEAN,
   dev : {TRUE}, sourceExts : SourceExtLists]

RulesInit ==
  /\ InitWith(RuleRequests,
              [optional : {"installed"}, overrides : {FALSE}, vectorIcons : {TRUE},
               win32 : {FALSE}, reloads : {{}}],
              {o \in OptionSets : ~o.isReactCanaryEnabled}, {NoConfig})
  /\ rules \in RuleTables
  /\ aliasTables = ConstructedAliases(layout)

SpecRules == RulesInit /\ [][Next]_vars

-----------------------------------------------------------------------------
(* The single steps over more specifiers, and the alias step over the      *)
(* tables the pipeline builds and over tables in which a specifier matches  *)
(* more than one alias.                                                     *)

VectorIconsAlias ==
  [matcher |-> "react-native-vector-icons", alias |-> <<"@expo", "vector-icons", "$1">>]

\* [/^react-native(\/.*)?/, 'react$2$1']
ReactNativeAlias ==
  [matcher |-> "react-native", alias |-> <<"react", "$2", "$1">>]

OverlappingAliases ==
  { [aliases |-> aliases, universalAliases |-> <<ReactNativeAlias, VectorIconsAlias>>],
    [aliases |-> aliases, universalAliases |-> <<VectorIconsAlias, ReactNativeAlias>>] }

StepModuleNames ==
  { <<"react-native">>, <<"react-native", "index">>, <<"react-native-vector-icons">>,
    <<"react-native-vector-icons", "Ionicons">>, <<"react-native-vector-icons-extra">>,
    <<"event-target-shim">>, <<"event-target-shim", "index">>, <<"debug">>,
    <<"constructor">>,
    <<".", "cjs", "react.production.min.js">>, <<".", "ReactNativeRenderer-prod">>,
    <<"..", "Renderer", "implementations", "ReactFabric-prod">> }

StepRequests ==
  [moduleName : StepModuleNames, originModulePath : {AppFile, ReactNativeFile, ReactFile},
   platform : Platforms, environment : {"client", "node"}, exporting : BOOLEAN,
   clientboundary : BOOLEAN, dev : BOOLEAN, sourceExts : SourceExtLists]

StepLayouts ==
  [optional : {"installed"}, overrides : {FALSE}, vectorIcons : BOOLEAN,
   win32 : {FALSE}, reloads : {{}}]

StepsInit ==
  /\ InitWith(StepRequests, StepLayouts,
              {o \in OptionSets : ~o.isReactCanaryEnabled}, {NoConfig})
  /\ rules = externals
  /\ \/ aliasTables = ConstructedAliases(layout)
     \/ layout.vectorIcons /\ aliasTables \in OverlappingAliases

SpecSteps == StepsInit /\ [][Next]_vars

-----------------------------------------------------------------------------
(* The post-resolution rewrites: files in and outside node_modules, assets  *)
(* and emptied packages, with and without shim and canary files, on posix   *)
(* and on win32.                                                            *)

RewriteModuleNames ==
  { <<"react-native-web">>, <<"debug">>, <<"encoding">>,
    <<"react-native-web", "dist", "modules", "AssetRegistry">>,
    <<"debug", "node_modules", "react-native-web", "index.js">>,
    <<"react-native", "Libraries", "logo.png">>,
    <<"@react-native", "assets-registry", "registry.js">>,
    <<".", "widgets">>, <<".", "logo.png">>,
    <<".", "vendor", "react-native-web", "dist", "modules", "AssetRegistry">> }

RewriteRequests ==
  [moduleName : RewriteModuleNames, originModulePath : {AppFile},
   platform : Platforms, environment : {"client", "node"}, exporting : {FALSE},
   clientboundary : {FALSE}, dev : {FALSE}, sourceExts : SourceExtLists]

RewriteLayouts ==
  [optional : {"installed"}, overrides : BOOLEAN, vectorIcons : {TRUE},
   win32 : BOOLEAN, reloads : {{}}]

RewritesInit ==
  /\ InitWith(RewriteRequests, RewriteLayouts, OptionSets, {NoConfig})
  /\ rules = externals
  /\ aliasTables = ConstructedAliases(layout)

SpecRewrites == RewritesInit /\ [][Next]_vars

-----------------------------------------------------------------------------
(* The order of the strategies.                                             *)

FixedOrder ==
  <<"productionSkip", "tsconfigPaths", "nodeExternals", "customExternals",
    "aliases", "eventTargetShim", "postResolution">>

\* C1: the strategies a request consults are an initial part of the fixed
\* order (production skip, path aliases, Node built-ins, external rules,
\* alias table, event-target-shim, underlying resolver with rewrites), each
\* consulted once; all but the last consulted one made no decision, and the
\* decision of the last consulted one is the request's result.
C1_FirstDecisionWins ==
  last # NoCall =>
    /\ Len(last.trace) \in 1..Len(FixedOrder)
    /\ \A i \in 1..Len(last.trace) :
         /\ last.trace[i].strategy = FixedOrder[i]
         /\ i < Len(last.trace) => last.trace[i].decision.kind = "null"
    /\ last.trace[Len(last.trace)].decision.kind # "null"
    /\ last.outcome = last.trace[Len(last.trace)].decision

\* A request the external rules decide, though the alias table lists it.
C1_Witness ==
  /\ last # NoCall
  /\ AliasOf(aliases, last.request.platform, last.request.moduleName) # <<>>
  /\ Len(last.trace) = 4
  /\ last.outcome.kind = "resolution"

-----------------------------------------------------------------------------
(* Repeated requests.                                                       *)

\* C2: a request resolved again, with no tsconfig reload since it was first
\* resolved and whatever other requests the pipeline resolved meanwhile, has
\* the outcome it had the first time.
C2_SameOutcomeAgain ==
  (last # NoCall /\ baseline # NoCall /\ last.request = request) =>
    last.outcome = baseline.outcome

\* A server request resolved a second time to a stub, on a pipeline whose
\* extension cache another request filled.
C2_Witness ==
  /\ baseline # NoCall
  /\ baseline.repeated
  /\ last.request = request
  /\ request.environment = "node"
  /\ nodejsSourceExtensions.cached
  /\ nodejsSourceExtensions.exts = <<"js", "json">>
  /\ baseline.taps # <<>>
  /\ last.outcome.kind = "resolution"

-----------------------------------------------------------------------------
(* One pipeline, built with and without a watcher, whose tsconfig.json is   *)
(* reloaded with path patterns, with an empty map, with a base URL only,    *)
(* and by loads that fail, settling in any order, until the process exits.  *)

ReloadRequests ==
  [moduleName : {<<"@app", "widgets">>, <<"react">>}, originModulePath : {AppFile},
   platform : {"web", "ios"}, environment : {"client"}, exporting : {FALSE},
   clientboundary : {FALSE}, dev : {TRUE}, sourceExts : SourceExtLists]

WatchOptionSets ==
  [isTsconfigPathsEnabled : BOOLEAN, isExporting : BOOLEAN, isInteractive : BOOLEAN,
   isReactCanaryEnabled : {FALSE}, EXPO_METRO_NO_MAIN_FIELD_OVERRIDE : {FALSE}]

Reloadable == {TsApp, TsEmpty, TsBaseOnly, LoadFailed}

ReloadInit ==
  /\ InitWith(ReloadRequests,
              [optional : {"installed"}, overrides : {FALSE}, vectorIcons : {TRUE},
               win32 : {FALSE}, reloads : {Reloadable}],
              WatchOptionSets, {NoConfig, TsApp, TsBaseOnly})
  /\ rules = externals
  /\ aliasTables = ConstructedAliases(layout)

ReloadNext ==
  \/ ResolveRequested
  \/ ConfigChanged
  \/ ReloadLoaded
  \/ ProcessExit

SpecReload == ReloadInit /\ [][ReloadNext]_vars

\* Every pending load settles sooner or later while the process runs.
SpecReloadFair ==
  SpecReload /\ \A i \in 1..MaxLoading : WF_vars(ReloadLoadedAt(i))

-----------------------------------------------------------------------------
(* The alias of react-native on web.                                        *)

AliasedOnWeb(req) ==
  /\ req.platform = "web"
  /\ req.moduleName \in {<<"react-native">>, <<"react-native", "index">>}

\* What the underlying resolver gives for 'react-native-web' in the context
\* of the last request.
UnderlyingTarget ==
  resolver(World, last.context, <<"react-native-web">>, last.request.platform)

\* What the pipeline gives for 'react-native-web', asked as the last request.
PipelineTarget ==
  ResolveRequest(World, nodejsSourceExtensions,
                 [last.request EXCEPT !.moduleName = <<"react-native-web">>]).outcome

\* C3 as claimed: a specifier with a platform-exact alias resolves to what
\* the pipeline resolves the alias target to.
C3_SameAsTargetThroughPipeline ==
  (last # NoCall /\ AliasedOnWeb(last.request)) => last.outcome = PipelineTarget

\* C3, amended: when no strategy ahead of the alias table decides a request
\* whose specifier has a platform-exact alias, the alias table decides it,
\* and the result is what the underlying resolver gives for the alias target
\* with the same requesting file, platform and context, not rewritten.
C3_SameAsTargetUnderlying ==
  (last # NoCall /\ AliasedOnWeb(last.request) /\ Len(last.trace) >= 5) =>
    /\ Len(last.trace) = 5
    /\ last.outcome = UnderlyingTarget

\* 'react-native/index' aliased on web to a file that has a shim: the
\* pipeline would have rewritten the target's resolution.
C3_Witness ==
  /\ last # NoCall
  /\ last.request.platform = "web"
  /\ last.request.moduleName = <<"react-native", "index">>
  /\ Len(last.trace) = 5
  /\ last.outcome.kind = "resolution"
  /\ Rewritten(World, "web", last.outcome) # last.outcome

\* The weak external rule applies to a request.
AtClientBoundary(req) ==
  req.clientboundary /\ req.environment \notin {"node", "react-server"} /\ ~req.exporting

\* C4 as claimed: 'react-native' on web always resolves to what the
\* underlying resolver gives for 'react-native-web'.
C4_AlwaysReactNativeWeb ==
  (last # NoCall /\ last.request.platform = "web"
     /\ last.request.moduleName = <<"react-native">>) =>
    last.outcome = UnderlyingTarget

\* C4, amended: 'react-native' on web resolves to what the underlying
\* resolver gives for 'react-native-web', in every environment and with
\* every exporting flag, unless a path alias resolves the specifier or the
\* request is a client-boundary request of a non-server environment that is
\* not exporting (the weak external rule then decides it).
C4_ReactNativeWebUnlessExternal ==
  (last # NoCall /\ last.request.platform = "web"
     /\ last.request.moduleName = <<"react-native">>
     /\ ~AtClientBoundary(last.request)
     /\ (Len(last.trace) >= 2 => last.trace[2].decision.kind = "null")) =>
    last.outcome = UnderlyingTarget

\* A client-boundary request of a server environment, aliased.
C4_Witness ==
  /\ last # NoCall
  /\ last.request.platform = "web"
  /\ last.request.moduleName = <<"react-native">>
  /\ last.request.clientboundary
  /\ last.request.environment = "react-server"
  /\ last.outcome.kind = "resolution"
  /\ last.outcome = UnderlyingTarget

-----------------------------------------------------------------------------
(* Node.js built-ins.                                                       *)

NotFound(outcome) ==
  /\ outcome.kind = "throw"
  /\ outcome.error \in {"FailedToResolveNameError", "FailedToResolvePathError"}

\* The last request reached the built-in step, naming a built-in.
BuiltinAsked ==
  /\ last # NoCall
  /\ last.request.moduleName \in {<<"os">>, <<"fs">>, <<"path">>}
  /\ Len(last.trace) >= 3

ServerAsked == last.request.environment \in {"node", "react-server"}

\* What the underlying resolver gives for the specifier of the last request.
UnderlyingSelf ==
  resolver(World, last.context, last.request.moduleName, last.request.platform)

\* C5 as claimed: outside the server environments a built-in that no local
\* module stands for resolves to the empty module, on web and on ios alike.
C5_EmptyOnWebAndIos ==
  (BuiltinAsked /\ ~ServerAsked /\ NotFound(UnderlyingSelf)
     /\ last.request.platform \in {"web", "ios"}) =>
    last.outcome = EmptyModule

\* C5, amended: outside the server environments a built-in that no local
\* module stands for resolves to the empty module, and does not throw, on
\* platform web; on the other platforms it does not resolve to the empty
\* module: the request fails with the not-found error.
C5_EmptyOnWebOnly ==
  (BuiltinAsked /\ ~ServerAsked /\ NotFound(UnderlyingSelf)) =>
    IF last.request.platform = "web" THEN last.outcome = EmptyModule
    ELSE last.outcome # EmptyModule /\ NotFound(last.outcome)

\* 'os' asked for on web by client code of a project that has no such module.
C5_Witness ==
  /\ BuiltinAsked
  /\ last.request.environment = "client"
  /\ last.request.platform = "web"
  /\ layout.optional = "missing"
  /\ last.outcome = EmptyModule

\* The optional resolve the built-in step made ended in a not-found error.
OptionalMissed ==
  /\ BuiltinAsked
  /\ ~ServerAsked
  /\ Len(last.trace[3].calls) = 1
  /\ last.trace[3].calls[1].via = "optional"
  /\ NotFound(last.trace[3].calls[1].raised)

\* C6: outside the server environments, when the optional resolve of a
\* built-in ends in a not-found error, the built-in step returns the empty
\* module on web; on the other platforms the step makes no decision, and the
\* request fails with the not-found error of the underlying resolver.
C6_WebEmptyOthersPropagate ==
  OptionalMissed =>
    IF last.request.platform = "web"
    THEN last.trace[3].decision = EmptyModule /\ last.outcome = EmptyModule
    ELSE /\ last.trace[3].decision.kind = "null"
         /\ Len(last.trace) = 7
         /\ NotFound(last.outcome)
         /\ last.outcome = UnderlyingSelf

\* 'os' asked for on android by client code of a project without it.
C6_Witness ==
  /\ OptionalMissed
  /\ last.request.platform = "android"
  /\ last.outcome.kind = "throw"

\* The canonical external specifier of the built-in the last request names.
CanonicalExternal ==
  getNodeExternalModuleId(last.request.originModulePath, last.request.moduleName)

StrictCanonical ==
  resolver(World, last.context, CanonicalExternal, last.request.platform)

\* C7: in the node and react-server environments the built-in step resolves
\* a built-in strictly to its canonical external specifier: that is its one
\* call of the underlying resolver (no optional resolve of the specifier),
\* the decision and the request's result are what the call gave, never the
\* empty module, and a failure of the call is the request's failure.
C7_ServerBuiltinStrict ==
  (BuiltinAsked /\ ServerAsked) =>
    /\ Len(last.trace) = 3
    /\ last.trace[3].calls =
         <<Call("strict", CanonicalExternal, StrictCanonical, StrictCanonical)>>
    /\ last.trace[3].decision = StrictCanonical
    /\ last.outcome = StrictCanonical
    /\ last.outcome # EmptyModule

\* 'os' asked for by server code whose external file is missing: the
\* failure of the strict resolution is the outcome.
C7_Witness ==
  /\ BuiltinAsked
  /\ last.request.environment = "react-server"
  /\ last.request.originModulePath = AppFile
  /\ layout.optional = "missing"
  /\ last.outcome.kind = "throw"
  /\ last.outcome.subject = <<"..", ".expo", "metro", "externals", "os", "index.js">>

\* C8: an optional resolve gives no result exactly when the underlying
\* resolver raised a failed-to-resolve name or path error, and gives what
\* the underlying resolver gave or raised otherwise; only the path-alias
\* and the built-in strategies resolve optionally; an error that a call of
\* the underlying resolver raised and that was not so ignored is the
\* decision of the strategy that made the call and the request's outcome.
C8_OnlyNotFoundSwallowed ==
  last # NoCall =>
    \A i \in 1..Len(last.trace) :
      \A j \in 1..Len(last.trace[i].calls) :
        /\ last.trace[i].calls[j].raised =
             resolver(World, last.context, last.trace[i].calls[j].moduleName,
                      last.request.platform)
        /\ last.trace[i].calls[j].returned =
             (IF NotFound(last.trace[i].calls[j].raised)
                   /\ last.trace[i].calls[j].via = "optional"
              THEN NoDecision ELSE last.trace[i].calls[j].raised)
        /\ last.trace[i].calls[j].via = "optional" =>
             last.trace[i].strategy \in {"tsconfigPaths", "nodeExternals"}
        /\ last.trace[i].calls[j].returned.kind = "throw" =>
             /\ last.trace[i].decision = last.trace[i].calls[j].raised
             /\ last.outcome = last.trace[i].calls[j].raised

\* An optional resolve of 'os' that hit a broken package: the error is not
\* ignored.
C8_Witness ==
  /\ last # NoCall
  /\ Len(last.trace) = 3
  /\ Len(last.trace[3].calls) = 1
  /\ last.trace[3].calls[1].via = "optional"
  /\ last.trace[3].calls[1].raised.kind = "throw"
  /\ last.trace[3].calls[1].raised.error = "InvalidPackageError"
  /\ last.outcome = last.trace[3].calls[1].raised

-----------------------------------------------------------------------------
(* The stubs of externals.                                                  *)

\* The last request is `request`, asked by whichever file.
SameSpecifier ==
  /\ last # NoCall
  /\ last.request = [request EXCEPT !.originModulePath = last.request.originModulePath]

\* C9: the absolute path of a stub is determined by its contents under the
\* project root: no two materialized stubs have the same contents, the stub
\* of a request is the materialized one with its contents, it is the stub
\* the same specifier got when `request` asked, and the specifier handed to
\* the underlying resolver is that path relative to the requesting file.
C9_StubPathFromContents ==
  /\ \A p, q \in DOMAIN virtualModules :
       virtualModules[p] = virtualModules[q] => p = q
  /\ last # NoCall =>
       \A i \in 1..Len(last.trace) :
         \A j \in 1..Len(last.trace[i].taps) :
           /\ SubSeq(last.trace[i].taps[j].absoluteFilePath, 1, Len(ProjectRoot))
                = ProjectRoot
           /\ last.trace[i].taps[j].absoluteFilePath \in DOMAIN virtualModules
           /\ last.trace[i].calls[1].moduleName
                = pathRelative(pathDirname(last.request.originModulePath),
                               last.trace[i].taps[j].absoluteFilePath)
           /\ (SameSpecifier /\ baseline # NoCall) =>
                /\ Len(baseline.taps) = 1
                /\ baseline.taps[1].absoluteFilePath
                     = last.trace[i].taps[j].absoluteFilePath

\* One external asked for by two files: one stub, reached by two different
\* relative specifiers.
C9_Witness ==
  /\ SameSpecifier
  /\ baseline # NoCall
  /\ last.request.originModulePath # request.originModulePath
  /\ Len(baseline.taps) = 1
  /\ Len(last.trace) = 4
  /\ Len(last.trace[4].taps) = 1
  /\ last.trace[4].taps[1].absoluteFilePath = baseline.taps[1].absoluteFilePath
  /\ last.trace[4].taps[1].redirectedModuleName # baseline.taps[1].redirectedModuleName

\* C10: whatever requests were resolved, no stub contents has been
\* materialized twice, and contents declared (once or again) is held by
\* at most one materialized module.
C10_MaterializedOnce ==
  /\ \A c \in DOMAIN writes : writes[c] <= 1
  /\ \A c \in DOMAIN declared :
       Cardinality({p \in DOMAIN virtualModules : virtualModules[p] = c}) <= 1

\* Contents declared a second time, materialized once.
C10_Witness ==
  \E c \in DOMAIN declared : declared[c] >= 2 /\ writes[c] = 1

-----------------------------------------------------------------------------
(* The custom externals step.                                               *)

\* module.exports=/*<name>*/__r(require.resolveWeak('<name>')), spelled out.
WeakLine(moduleName) ==
  CASE moduleName = <<"react">> ->
         <<109, 111, 100, 117, 108, 101, 46, 101, 120, 112, 111, 114,
           116, 115, 61, 47, 42, 114, 101, 97, 99, 116, 42, 47, 95,
           95, 114, 40, 114, 101, 113, 117, 105, 114, 101, 46, 114,
           101, 115, 111, 108, 118, 101, 87, 101, 97, 107, 40, 39,
           114, 101, 97, 99, 116, 39, 41, 41>>
    [] moduleName = <<"react-native">> ->
         <<109, 111, 100, 117, 108, 101, 46, 101, 120, 112, 111, 114,
           116, 115, 61, 47, 42, 114, 101, 97, 99, 116, 45, 110, 97,
           116, 105, 118, 101, 42, 47, 95, 95, 114, 40, 114, 101,
           113, 117, 105, 114, 101, 46, 114, 101, 115, 111, 108, 118,
           101, 87, 101, 97, 107, 40, 39, 114, 101, 97, 99, 116, 45,
           110, 97, 116, 105, 118, 101, 39, 41, 41>>
    [] moduleName = <<"debug">> ->
         <<109, 111, 100, 117, 108, 101, 46, 101, 120, 112, 111, 114,
           116, 115, 61, 47, 42, 100, 101, 98, 117, 103, 42, 47, 95,
           95, 114, 40, 114, 101, 113, 117, 105, 114, 101, 46, 114,
           101, 115, 111, 108, 118, 101, 87, 101, 97, 107, 40, 39,
           100, 101, 98, 117, 103, 39, 41, 41>>

\* module.exports=$$require_external('<name>'), spelled out.
NodeLine(moduleName) ==
  CASE moduleName = <<"react">> ->
         <<109, 111, 100, 117, 108, 101, 46, 101, 120, 112, 111, 114,
           116, 115, 61, 36, 36, 114, 101, 113, 117, 105, 114, 101,
           95, 101, 120, 116, 101, 114, 110, 97, 108, 40, 39, 114,
           101, 97, 99, 116, 39, 41>>
    [] moduleName = <<"react-native">> ->
         <<109, 111, 100, 117, 108, 101, 46, 101, 120, 112, 111, 114,
           116, 115, 61, 36, 36, 114, 101, 113, 117, 105, 114, 101,
           95, 101, 120, 116, 101, 114, 110, 97, 108, 40, 39, 114,
           101, 97, 99, 116, 45, 110, 97, 116, 105, 118, 101, 39, 41>>
    [] moduleName = <<"debug">> ->
         <<109, 111, 100, 117, 108, 101, 46, 101, 120, 112, 111, 114,
           116, 115, 61, 36, 36, 114, 101, 113, 117, 105, 114, 101,
           95, 101, 120, 116, 101, 114, 110, 97, 108, 40, 39, 100,
           101, 98, 117, 103, 39, 41>>

\* The custom externals step was consulted for the last request.
ExternalsConsulted == last # NoCall /\ Len(last.trace) >= 4

\* The rules of the table that match the last request.
MatchingRules ==
  {i \in 1..Len(rules) :
     ExternalMatch(rules[i], last.context, last.request.moduleName,
                   last.request.platform)}

FirstMatchingRule == CHOOSE i \in MatchingRules : \A j \in MatchingRules : i <= j

\* The step declared one stub with these contents and decided with the
\* strict resolution of the stub's path relative to the requesting file.
StubStepIs(step, contents) ==
  /\ Len(step.taps) = 1
  /\ step.taps[1].contents = contents
  /\ Len(step.calls) = 1
  /\ step.calls[1].via = "strict"
  /\ step.calls[1].moduleName =
       pathRelative(pathDirname(last.request.originModulePath),
                    step.taps[1].absoluteFilePath)
  /\ step.decision =
       resolver(World, last.context, step.calls[1].moduleName, last.request.platform)
  /\ last.outcome = step.decision

QuietStepIs(step, decision) ==
  step.decision = decision /\ step.taps = <<>> /\ step.calls = <<>>

\* C11: the first rule of the table, in declared order, that matches the
\* request decides the custom externals step: an 'empty' rule gives the
\* empty module directly; a 'weak' rule declares a module whose contents are
\* the one-line weak require of the specifier, a 'node' rule one whose
\* contents are the one-line external require of it, and the result is the
\* strict resolution of the stub's path relative to the requesting file's
\* directory; when no rule matches the step makes no decision.
C11_FirstMatchingRuleDecides ==
  ExternalsConsulted =>
    IF MatchingRules = {} THEN QuietStepIs(last.trace[4], NoDecision)
    ELSE CASE rules[FirstMatchingRule].replace = "empty" ->
                QuietStepIs(last.trace[4], EmptyModule) /\ last.outcome = EmptyModule
           [] rules[FirstMatchingRule].replace = "weak" ->
                StubStepIs(last.trace[4], WeakLine(last.request.moduleName))
           [] rules[FirstMatchingRule].replace = "node" ->
                StubStepIs(last.trace[4], NodeLine(last.request.moduleName))
           [] OTHER -> TRUE

\* 'react-native' asked for at a client boundary under the shipped table:
\* the weak stub is declared and is what the request resolves to.
C11_Witness ==
  /\ ExternalsConsulted
  /\ rules = externals
  /\ last.request.moduleName = <<"react-native">>
  /\ MatchingRules = {2}
  /\ Len(last.trace[4].taps) = 1
  /\ last.outcome = Resolved("sourceFile", last.trace[4].taps[1].absoluteFilePath)

\* C12: of the shipped rules (the node rule first, the weak rule second)
\* none matches a request whose exporting flag is set, and the step then
\* decides nothing and declares nothing; the node rule matches only in the
\* node and react-server environments, the weak rule only outside them and
\* with the client-boundary flag set; no request is matched by both.
C12_RulesAreExclusive ==
  (last # NoCall /\ rules = externals) =>
    /\ last.request.exporting => MatchingRules = {}
    /\ (last.request.exporting /\ ExternalsConsulted) =>
         QuietStepIs(last.trace[4], NoDecision)
    /\ 1 \in MatchingRules => ServerAsked
    /\ 2 \in MatchingRules => ~ServerAsked /\ last.request.clientboundary
    /\ Cardinality(MatchingRules) <= 1

\* 'react', which both rules name, asked for at a client boundary of the
\* node environment: the node rule alone matches.
C12_Witness ==
  /\ ExternalsConsulted
  /\ rules = externals
  /\ last.request.moduleName = <<"react">>
  /\ last.request.clientboundary
  /\ last.request.environment = "node"
  /\ MatchingRules = {1}
  /\ Len(last.trace[4].taps) = 1

\* The first rule matching the last request has a replace kind the step
\* does not know.
UnknownKindMatched ==
  /\ ExternalsConsulted
  /\ MatchingRules # {}
  /\ rules[FirstMatchingRule].replace \notin {"empty", "node", "weak"}

\* C13: when the first matching rule has a replace kind other than empty,
\* node or weak, the step raises a configuration error at once: it declares
\* no virtual module, calls the underlying resolver not at all, no later
\* rule or strategy is tried, and the error is the outcome of the request.
C13_UnknownKindRaises ==
  UnknownKindMatched =>
    /\ QuietStepIs(last.trace[4], Thrown("CommandError", last.request.moduleName))
    /\ Len(last.trace) = 4
    /\ last.outcome = Thrown("CommandError", last.request.moduleName)
    /\ virtualModules = Empty
    /\ declared = Empty

\* 'react' in the node environment under a table whose first rule has the
\* unknown kind and whose second, a node rule, matches as well.
C13_Witness ==
  /\ UnknownKindMatched
  /\ MatchingRules = {1, 2}
  /\ rules[2].replace = "node"
  /\ last.outcome.kind = "throw"
  /\ last.outcome.error = "CommandError"

-----------------------------------------------------------------------------
(* The alias step.                                                          *)

AliasesConsulted == last # NoCall /\ Len(last.trace) >= 5

\* The platform-exact aliases the table declares for the last request.
DeclaredExact ==
  {rule \in aliasTables.aliases :
     /\ rule.platform = last.request.platform
     /\ rule.moduleName = last.request.moduleName}

ExactAlias == (CHOOSE rule \in DeclaredExact : TRUE).alias

\* The universal aliases whose pattern the specifier of the last request matches.
UniversalMatching ==
  {i \in 1..Len(aliasTables.universalAliases) :
     Match(aliasTables.universalAliases[i].matcher, last.request.moduleName).matched}

FirstUniversal == CHOOSE i \in UniversalMatching : \A j \in UniversalMatching : i <= j

\* The step made one call, the strict resolution of moduleName, and decided
\* the request with what it gave.
StrictStepIs(step, moduleName) ==
  /\ step.taps = <<>>
  /\ Len(step.calls) = 1
  /\ step.calls[1].via = "strict"
  /\ step.calls[1].moduleName = moduleName
  /\ step.decision =
       resolver(World, last.context, moduleName, last.request.platform)
  /\ last.outcome = step.decision

\* What '@expo/vector-icons$1' gives for the specifiers asked for.
VectorIconsRewrite(moduleName) ==
  CASE moduleName = <<"react-native-vector-icons", "Ionicons">> ->
         <<"@expo", "vector-icons", "Ionicons">>
    [] moduleName = <<"react-native-vector-icons">> -> <<"@expo", "vector-icons">>
    [] moduleName = <<"react-native-vector-icons-extra">> -> <<"@expo", "vector-icons">>

\* C14: in the alias step the platform-exact alias of the request's platform
\* goes first; else the first universal alias, in declared order, whose
\* pattern matches decides, and the specifier resolved is its replacement
\* with each $n replaced by group n of the match, by nothing when the group
\* took no part ('react-native-vector-icons/Ionicons' becomes
\* '@expo/vector-icons/Ionicons', 'react-native-vector-icons' becomes
\* '@expo/vector-icons'); a specifier matching no alias gets no decision.
C14_ExactThenUniversalInOrder ==
  AliasesConsulted =>
    IF DeclaredExact # {} THEN StrictStepIs(last.trace[5], ExactAlias)
    ELSE IF UniversalMatching = {} THEN QuietStepIs(last.trace[5], NoDecision)
    ELSE /\ StrictStepIs(last.trace[5],
                         Replace(aliasTables.universalAliases[FirstUniversal].alias,
                                 Match(aliasTables.universalAliases[FirstUniversal].matcher,
                                       last.request.moduleName)))
         /\ aliasTables.universalAliases[FirstUniversal] = VectorIconsAlias =>
              last.trace[5].calls[1].moduleName
                = VectorIconsRewrite(last.request.moduleName)

\* C14, for the specifiers that are not a key the alias object inherits:
\* the declared exact alias first, then the first matching universal alias
\* in declared order, else no decision.
C14_DeclaredAliasesInOrder ==
  (AliasesConsulted /\ last.request.moduleName[1] \notin ObjectPrototypeKeys) =>
    C14_ExactThenUniversalInOrder

\* 'react-native-vector-icons/Ionicons', which two universal aliases match:
\* the first declared one rewrites it.
C14_Witness ==
  /\ AliasesConsulted
  /\ last.request.moduleName = <<"react-native-vector-icons", "Ionicons">>
  /\ UniversalMatching = {1, 2}
  /\ aliasTables.universalAliases[1] = VectorIconsAlias
  /\ last.trace[5].calls[1].moduleName = <<"@expo", "vector-icons", "Ionicons">>
  /\ last.outcome.kind = "resolution"

-----------------------------------------------------------------------------
(* The event-target-shim step.                                              *)

EventTargetConsulted == last # NoCall /\ Len(last.trace) >= 6

\* C15: on every platform other than web the specifier 'event-target-shim',
\* and no other, is resolved strictly as
\* 'event-target-shim/dist/event-target-shim.js'; on web, and for every
\* other specifier, the step makes no decision.
C15_EventTargetShimOffWeb ==
  EventTargetConsulted =>
    IF last.request.platform # "web" /\ last.request.moduleName = <<"event-target-shim">>
    THEN StrictStepIs(last.trace[6],
                      <<"event-target-shim", "dist", "event-target-shim.js">>)
    ELSE QuietStepIs(last.trace[6], NoDecision)

\* 'event-target-shim' on android resolves to its distribution file.
C15_Witness ==
  /\ EventTargetConsulted
  /\ last.request.platform = "android"
  /\ last.request.moduleName = <<"event-target-shim">>
  /\ last.outcome =
       Resolved("sourceFile",
                NodeModules \o <<"event-target-shim", "dist", "event-target-shim.js">>)

-----------------------------------------------------------------------------
(* The post-resolution rewrites.                                            *)

\* The last strategy was consulted and the underlying resolver answered.
PostConsulted ==
  /\ last # NoCall
  /\ Len(last.trace) = 7
  /\ last.trace[7].calls[1].raised.kind = "resolution"

\* What the underlying resolver gave the last strategy.
Underlying == last.trace[7].calls[1].raised

\* The names of the path the underlying resolver gave.
UnderlyingNames == Located(Underlying.filePath)

RegistrySuffix == <<"react-native-web", "dist", "modules", "AssetRegistry", "index.js">>

\* The underlying resolver gave the asset registry of react-native-web.
AssetRegistryFound ==
  /\ PostConsulted
  /\ Underlying.type = "sourceFile"
  /\ Len(UnderlyingNames) >= Len(RegistrySuffix)
  /\ SubSeq(UnderlyingNames, Len(UnderlyingNames) - Len(RegistrySuffix) + 1,
            Len(UnderlyingNames)) = RegistrySuffix

RegistryPath == Native(layout, assetRegistryPath)

RegistryShim ==
  Native(layout, shimsFolder \o <<"@react-native", "assets-registry", "registry.js">>)

\* C16: when the underlying resolver gives a source file whose path, its
\* backslashes read as slashes, ends with
\* 'react-native-web/dist/modules/AssetRegistry/index.js', on web the path
\* returned is the unified asset-registry path, or the shim of that path
\* when the shims folder has one; on the other platforms the path returned
\* is not the registry path.
C16_AssetRegistryOnWeb ==
  AssetRegistryFound =>
    /\ last.outcome.type = "sourceFile"
    /\ IF last.request.platform = "web"
       THEN last.outcome.filePath =
              (IF layout.overrides THEN RegistryShim ELSE RegistryPath)
       ELSE last.outcome.filePath \notin {RegistryPath, RegistryShim}

\* On win32 the asset registry of react-native-web, found under
\* node_modules with backslashes, is redirected on web.
C16_Witness ==
  /\ AssetRegistryFound
  /\ last.request.platform = "web"
  /\ layout.win32
  /\ Includes(Underlying.filePath, "node_modules")
  /\ last.outcome.filePath = RegistryPath

\* The underlying resolver gave a source file under a node_modules folder.
InNodeModules ==
  /\ PostConsulted
  /\ Underlying.type = "sourceFile"
  /\ \E i \in 1..(Len(UnderlyingNames) - 1) : UnderlyingNames[i] = "node_modules"

\* The names after the last node_modules folder of the path.
AfterNodeModules ==
  SubSeq(UnderlyingNames,
         1 + (CHOOSE i \in 1..Len(UnderlyingNames) :
                /\ UnderlyingNames[i] = "node_modules"
                /\ \A j \in (i + 1)..Len(UnderlyingNames) :
                     UnderlyingNames[j] # "node_modules"),
         Len(UnderlyingNames))

\* The file of `folder` that stands for the file the resolver gave.
OverrideIn(folder) == Native(layout, folder \o AfterNodeModules)

Under(folder, path) ==
  /\ Len(Located(path)) >= Len(folder)
  /\ SubSeq(Located(path), 1, Len(folder)) = folder

\* The path of the result is the override of `folder` if that file exists,
\* and the path the resolver gave if not.
OverriddenFrom(folder) ==
  last.outcome =
    [Underlying EXCEPT !.filePath =
       IF OverrideExists(layout, folder \o AfterNodeModules)
       THEN OverrideIn(folder) ELSE @]

\* C17 as claimed: on web every source file under node_modules is replaced
\* by its shim exactly when the shim exists and is left unchanged otherwise.
C17_ShimmedOnWeb ==
  (InNodeModules /\ last.request.platform = "web") =>
    /\ OverriddenFrom(shimsFolder)
    /\ ~Under(canaryFolder, last.outcome.filePath)

\* C17, amended: on web a source file under node_modules, other than the
\* asset registry of react-native-web, is replaced by the file of the shims
\* folder at the path after the last 'node_modules/' exactly when that file
\* exists, and is left unchanged when it does not; the result is never a
\* file of the canary folder.
C17_ShimmedOnWebButRegistry ==
  (InNodeModules /\ last.request.platform = "web") =>
    /\ ~AssetRegistryFound => OverriddenFrom(shimsFolder)
    /\ ~Under(canaryFolder, last.outcome.filePath)

\* A file of a nested node_modules folder, shimmed on web by the path after
\* the last node_modules, in a project that has the canary mode on.
C17_Witness ==
  /\ InNodeModules
  /\ last.request.platform = "web"
  /\ options.isReactCanaryEnabled
  /\ UnderlyingNames = NodeModules \o <<"debug", "node_modules", "react-native-web", "index.js">>
  /\ last.outcome.filePath = Native(layout, shimsFolder \o <<"react-native-web", "index.js">>)

\* C18: off web a source file is replaced by the file of the canary folder
\* at the path after the last 'node_modules/' only when the canary mode is
\* on, the path is under node_modules and that file exists; with the canary
\* mode off the result of the underlying resolver is returned unchanged;
\* the result is never a file of the shims folder.
C18_CanaryOffWeb ==
  (PostConsulted /\ last.request.platform # "web") =>
    /\ IF options.isReactCanaryEnabled /\ InNodeModules
       THEN OverriddenFrom(canaryFolder)
       ELSE last.outcome = Underlying
    /\ ~Under(shimsFolder, last.outcome.filePath)

\* react-native-web on ios with the canary mode on and a canary file for it.
C18_Witness ==
  /\ InNodeModules
  /\ last.request.platform = "ios"
  /\ options.isReactCanaryEnabled
  /\ layout.overrides
  /\ Under(canaryFolder, last.outcome.filePath)
  /\ last.outcome # Underlying

\* C19 as claimed: the rewrite changes only source files under node_modules.
C19_OnlyInNodeModules ==
  (PostConsulted /\ last.outcome # Underlying) => InNodeModules

\* C19, amended: the rewrite changes the result of the underlying resolver
\* only when it is a source file that is under node_modules or, on web, is
\* the asset registry of react-native-web; an asset, the empty module and
\* any other source file are returned unchanged.
C19_OnlyInNodeModulesOrRegistry ==
  (PostConsulted /\ last.outcome # Underlying) =>
    \/ InNodeModules
    \/ AssetRegistryFound /\ last.request.platform = "web"

\* An asset under node_modules for whose path a shim exists: unchanged.
C19_Witness ==
  /\ PostConsulted
  /\ Underlying.type = "assetFiles"
  /\ last.request.platform = "web"
  /\ OverrideExists(layout, shimsFolder \o <<"react-native", "Libraries", "logo.png">>)
  /\ last.outcome = Underlying

\* A production renderer imported from a file of react-native, off web.
ProductionRendererImport ==
  /\ last.request.platform # "web"
  /\ last.request.originModulePath = ReactNativeFile
  /\ last.request.moduleName \in
       { <<".", "ReactNativeRenderer-prod">>,
         <<"..", "Renderer", "implementations", "ReactFabric-prod">> }

\* A '.production.min.js' file imported from a file of react or of a
\* package named react-*, on any platform.
ProductionFileImport ==
  /\ last.request.originModulePath \in {ReactFile, ReactNativeFile}
  /\ last.request.moduleName = <<".", "cjs", "react.production.min.js">>

ProductionSkipped ==
  QuietStepIs(last.trace[1], EmptyModule) /\ last.outcome = EmptyModule

\* C20 as claimed: the step gives the empty module only when the request is
\* not an export build and its context is a development context.
C20_SkipsInNonExportDevelopment ==
  last # NoCall =>
    IF last.request.exporting \/ ~last.request.dev
    THEN QuietStepIs(last.trace[1], NoDecision)
    ELSE IF ProductionRendererImport \/ ProductionFileImport
      THEN ProductionSkipped
      ELSE QuietStepIs(last.trace[1], NoDecision)

\* C20, amended: the step gives the empty module only in development
\* contexts, export build or not: when the context is not a development
\* context it makes no decision; in a development context it gives the
\* empty module exactly for a production renderer imported from react-native
\* off web and for a '.production(.min).js' file imported from a react or
\* scheduler package.
C20_SkipsInDevelopment ==
  last # NoCall =>
    IF last.request.dev /\ (ProductionRendererImport \/ ProductionFileImport)
    THEN ProductionSkipped
    ELSE QuietStepIs(last.trace[1], NoDecision)

\* The production file of react imported from react in a development export.
C20_Witness ==
  /\ last # NoCall
  /\ last.request.dev
  /\ last.request.exporting
  /\ last.request.originModulePath = ReactFile
  /\ ProductionFileImport
  /\ ProductionSkipped

-----------------------------------------------------------------------------
(* The path-alias step.                                                     *)

PathsConsulted == last # NoCall /\ Len(last.trace) >= 2

\* The paths the active mapping maps the last specifier to, in the order of
\* the templates: '@app/*' to ./missing/* and ./src/*, '*' to ./src/*, both
\* from the project root.
MappedTargets ==
  IF tsConfigResolve = Bound(TsApp) /\ last.request.moduleName = <<"@app", "widgets">>
  THEN << ProjectRoot \o <<"missing", "widgets">>, ProjectRoot \o <<"src", "widgets">> >>
  ELSE IF /\ tsConfigResolve = Bound(TsStar)
          /\ last.request.moduleName[1] \notin {".", "..", ""}
    THEN << ProjectRoot \o <<"src">> \o last.request.moduleName >>
    ELSE <<>>

\* What the underlying resolver gives for `target`, asked by the last
\* requesting file.
UnderlyingOf(target) ==
  resolver(World, last.context, target, last.request.platform)

ResolvingTargets ==
  {i \in 1..Len(MappedTargets) : UnderlyingOf(MappedTargets[i]).kind = "resolution"}

FirstResolvingTarget ==
  MappedTargets[CHOOSE i \in ResolvingTargets : \A j \in ResolvingTargets : i <= j]

\* C21: when a mapping is active and maps the specifier to a target that
\* resolves, the request's result is the resolution of the first such target
\* for the same requesting file; when no mapping is active, or it does not
\* match, or no mapped target resolves, the path-alias step makes no
\* decision and the request goes on to the Node.js externals step.
C21_MappedOrPassedOn ==
  PathsConsulted =>
    IF ResolvingTargets # {}
    THEN /\ last.trace[2].decision = UnderlyingOf(FirstResolvingTarget)
         /\ last.outcome = UnderlyingOf(FirstResolvingTarget)
         /\ Len(last.trace) = 2
    ELSE /\ last.trace[2].decision = NoDecision
         /\ Len(last.trace) >= 3
         /\ last.trace[3].strategy = "nodeExternals"

\* '@app/widgets' under the mapping of '@app/*': the first target is missing
\* and the second one is the answer.
C21_Witness ==
  /\ PathsConsulted
  /\ tsConfigResolve = Bound(TsApp)
  /\ last.request.moduleName = <<"@app", "widgets">>
  /\ ResolvingTargets = {2}
  /\ Len(last.trace[2].calls) = 2
  /\ last.outcome.kind = "resolution"
  /\ last.outcome.filePath = ProjectRoot \o <<"src", "widgets", "index.js">>

-----------------------------------------------------------------------------
(* Failures of the underlying resolver.                                     *)

\* What the underlying resolver gives for the last request itself.
UnderlyingOfRequest == UnderlyingOf(last.request.moduleName)

\* C26: when none of the first six steps decides and the underlying
\* resolver fails, the caller gets that very failure: the last step neither
\* catches it nor answers with the empty module.
C26_FailureReachesCaller ==
  (last # NoCall /\ Len(last.trace) = 7 /\ UnderlyingOfRequest.kind = "throw") =>
    /\ last.trace[7].decision = UnderlyingOfRequest
    /\ last.outcome = UnderlyingOfRequest

\* '@app/widgets' without a mapping: not found by any step.
C26_Witness ==
  /\ last # NoCall
  /\ Len(last.trace) = 7
  /\ tsConfigResolve = NoConfig
  /\ last.request.moduleName = <<"@app", "widgets">>
  /\ NotFound(UnderlyingOfRequest)
  /\ last.outcome = UnderlyingOfRequest

-----------------------------------------------------------------------------
(* Reloads of the path-alias mapping.                                       *)

\* `request` was answered after the last notification and the last reload.
AnsweredSince == baseline # NoCall /\ last.request = request

WidgetsFile == ProjectRoot \o <<"src", "widgets", "index.js">>

\* C22: once a reload whose config has an empty or absent map of patterns
\* has completed, the path-alias step makes no decision and asks the
\* underlying resolver nothing; once a later reload with a non-empty map has
\* completed, the same pipeline maps specifiers with the new patterns.
C22_EmptyMapDisables ==
  /\ configWatcher.applied \in {TsEmpty, TsBaseOnly} =>
       /\ tsConfigResolve = NoConfig
       /\ AnsweredSince => QuietStepIs(last.trace[2], NoDecision)
  /\ configWatcher.applied = TsApp =>
       /\ tsConfigResolve = Bound(TsApp)
       /\ (AnsweredSince /\ request.moduleName = <<"@app", "widgets">>) =>
            /\ Len(last.trace) = 2
            /\ last.outcome.kind = "resolution"
            /\ last.outcome.filePath = WidgetsFile

\* '@app/widgets' resolved by the mapping a reload brought, on a pipeline
\* whose reload before that one had an empty map.
C22_Witness ==
  /\ configWatcher.previous = TsEmpty
  /\ configWatcher.applied = TsApp
  /\ AnsweredSince
  /\ request.moduleName = <<"@app", "widgets">>
  /\ last.outcome.kind = "resolution"
  /\ last.outcome.filePath = WidgetsFile
  /\ virtualModules = Empty

\* The mappings a resolution may find: the active one, and what each of the
\* reloads in flight will make of it.
MappingsAround ==
  {tsConfigResolve} \cup
    {Settled(tsConfigResolve, loading[i]) : i \in 1..Len(loading)}

C24_WatchHasExitHook ==
  /\ configWatcher.started => configWatcher.exitHooks = <<"stopObserving">>
  /\ ~configWatcher.started => configWatcher.exitHooks = <<>> /\ ~configWatcher.observing
  /\ configWatcher.exited => ~configWatcher.observing

\* A watch stopped by the exit hook while a load was still in flight.
C24_Witness ==
  /\ configWatcher.started
  /\ configWatcher.exited
  /\ ~configWatcher.observing
  /\ loading # <<>>

\* The pipeline was built for an export, for a non-interactive session or
\* with path aliases disabled.
BuiltWithoutWatch ==
  options.isExporting \/ ~options.isInteractive \/ ~options.isTsconfigPathsEnabled

\* C25: the active mapping changes only when a load in flight settles
\* fulfilled, and then to the whole mapping made of the loaded config; a
\* resolution never changes it; a pipeline built for an export, for a
\* non-interactive session or with path aliases disabled starts no watch
\* and keeps the mapping it was built with.
C25_OnlyReloadsReplace ==
  [][/\ tsConfigResolve' # tsConfigResolve =>
          \E i \in 1..Len(loading) :
            /\ loading[i] # LoadFailed
            /\ loading' = Without(loading, i)
            /\ tsConfigResolve' = ReloadedResolve(loading[i])
            /\ last' = last
     /\ BuiltWithoutWatch =>
          /\ tsConfigResolve' = tsConfigResolve
          /\ ~configWatcher.started
          /\ loading' = <<>>]_vars

\* A request answered through the mapping an export was built with.
C25_Witness ==
  /\ options.isExporting
  /\ options.isTsconfigPathsEnabled
  /\ tsConfigResolve = Bound(TsApp)
  /\ ~configWatcher.started
  /\ last # NoCall
  /\ last.outcome.kind = "resolution"
  /\ last.outcome.filePath = WidgetsFile

\* C27 as claimed: the context handed to the strategies is made of the
\* request alone; for a server request its source extensions are
\* getNodejsExtensions of the request's own.
C27_ContextOfRequestAlone ==
  last # NoCall =>
    /\ last.context =
         MutateContext(options, NotCached, IncomingContext(last.request),
                       last.request.platform)
    /\ isServerEnvironment(last.request.environment) =>
         last.context.sourceExts = getNodejsExtensions(last.request.sourceExts)

\* C28 as claimed: when every load has settled, the active mapping is the
\* one made of the config loaded for the most recent notification.
C28_MostRecentWins ==
  (loading = <<>> /\ configWatcher.notified \notin {Nothing, LoadFailed}) =>
    tsConfigResolve = ReloadedResolve(configWatcher.notified)

\* C29: while the process runs, every notification whose load is fulfilled
\* is followed by the mapping being set from the config loaded for it,
\* whether or not a load failed before.
C29_EveryLoadApplied ==
  \A tsConfigPaths \in Reloadable \ {LoadFailed} :
    (\E i \in 1..Len(loading) : loading[i] = tsConfigPaths)
      ~> \/ /\ configWatcher.applied = tsConfigPaths
             /\ tsConfigResolve = ReloadedResolve(tsConfigPaths)
         \/ configWatcher.exited

\* The mapping of a notification that came after a load had failed.
C29_Witness ==
  /\ configWatcher.previous = LoadFailed
  /\ configWatcher.applied = TsApp
  /\ tsConfigResolve = Bound(TsApp)
  /\ ~configWatcher.exited

\* C30 as claimed: the config a reload has loaded enables the path-alias
\* step exactly if a pipeline constructed with it has the step enabled.
C30_ReloadAsConstruction ==
  configWatcher.applied \notin {Nothing, LoadFailed} =>
    (tsConfigResolve # NoConfig
       <=> ConstructedResolve(options, configWatcher.applied) # NoConfig)

-----------------------------------------------------------------------------
(* fastHashMemoized called on strings of its own.                           *)

MaxStr == 6

\* "A", "B", "a" and the largest UTF-16 code unit.
Alphabet == {65, 66, 97, 65535}

Strings == UNION {[1..n -> Alphabet] : n \in 0..MaxStr}

IdleRequest ==
  [moduleName |-> <<"react">>, originModulePath |-> RootFile, platform |-> "ios",
   environment |-> "client", exporting |-> FALSE, clientboundary |-> FALSE,
   dev |-> TRUE, sourceExts |-> <<"js", "json">>]

\* A pipeline that has resolved nothing.
PipelineIdle ==
  /\ PipelineWith({IdleRequest},
                  {l \in Layouts : l.optional = "installed" /\ l.overrides},
                  {o \in OptionSets : ~o.isReactCanaryEnabled}, {NoConfig})
  /\ rules = externals
  /\ aliasTables = ConstructedAliases(layout)

RscIdle ==
  /\ fetchCache = <<>>
  /\ globalThis = NoGlobals
  /\ fetches = <<>>

pipeline ==
  <<request, layout, options, rules, aliasTables, tsConfigResolve, loading,
    configWatcher, virtualModules, tapCache, nodejsSourceExtensions, writes,
    declared, last, baseline>>

HashInit ==
  /\ PipelineIdle
  /\ RscIdle
  /\ invocation \in [of : {"fastHashMemoized"}, str : Strings, returned : {<<>>}]

\* fastHashMemoized(str), which remembers the hash of str.
HashCalled ==
  /\ invocation # NoCall
  /\ invocation.of = "fastHashMemoized"
  /\ Len(invocation.returned) < MaxCount
  /\ invocation' =
       [invocation EXCEPT
          !.returned = Append(@, fastHashMemoized(hashCache, invocation.str))]
  /\ hashCache' =
       (invocation.str :> fastHashMemoized(hashCache, invocation.str)) @@ hashCache
  /\ UNCHANGED <<pipeline, fetchCache, globalThis, fetches>>

SpecHash == HashInit /\ [][HashCalled]_vars

\* 31 * h + c wrapped to a signed 32-bit integer, for a signed 32-bit h:
\* h is (h \div Limb) * Limb + h % Limb, so the low half of the result is
\* that of 31 * (h % Limb) + c and the high half takes the carry.
Signed16(x) == IF (x % Limb) >= Limb \div 2 THEN (x % Limb) - Limb ELSE x % Limb

Times31Plus(h, c) ==
  Signed16(31 * (h \div Limb) + ((31 * (h % Limb) + c) \div Limb)) * Limb
    + ((31 * (h % Limb) + c) % Limb)

RECURSIVE Horner(_, _)
Horner(str, n) == IF n = 0 THEN 0 ELSE Times31Plus(Horner(str, n - 1), str[n])

HashReturned == invocation # NoCall /\ invocation.of = "fastHashMemoized"

\* C39: every call of the hash on a string, memoized or not, returns the
\* value of h := (31 * h + code) wrapped to signed 32 bits, folded over the
\* characters from 0; it lies in [-2^31, 2^31 - 1] and is 0 for "".
C39_HashIsWrappedHorner ==
  HashReturned =>
    \A i \in 1..Len(invocation.returned) :
      /\ invocation.returned[i] = Horner(invocation.str, Len(invocation.str))
      /\ invocation.returned[i] >= -((Limb \div 2 - 1) * Limb) - Limb
      /\ invocation.returned[i] <= (Limb \div 2 - 1) * Limb + (Limb - 1)
      /\ invocation.str = <<>> => invocation.returned[i] = 0

\* A string whose hash wrapped around to a negative value, returned from
\* the loop and then from the memo.
C39_Witness ==
  /\ HashReturned
  /\ Len(invocation.returned) = 2
  /\ invocation.str \in DOMAIN hashCache
  /\ invocation.returned[1] < 0
  /\ Len(invocation.str) = 5

-----------------------------------------------------------------------------
(* Requests of every platform and environment, with and without the main    *)
(* field override.                                                          *)

ContextRequests ==
  [moduleName : {<<"react">>, <<"react-native">>}, originModulePath : {AppFile},
   platform : Platforms, environment : Environments, exporting : BOOLEAN,
   clientboundary : {FALSE}, dev : {TRUE},
   sourceExts : {<<"ts", "tsx", "mjs", "js", "jsx", "json">>, <<"mjs", "json">>}]

ContextOptionSets ==
  [isTsconfigPathsEnabled : {TRUE}, isExporting : {FALSE}, isInteractive : {TRUE},
   isReactCanaryEnabled : {FALSE}, EXPO_METRO_NO_MAIN_FIELD_OVERRIDE : BOOLEAN]

ContextsInit ==
  /\ InitWith(ContextRequests,
              {l \in Layouts : l.optional = "installed" /\ l.overrides},
              ContextOptionSets, {NoConfig})
  /\ rules = externals
  /\ aliasTables = ConstructedAliases(layout)

SpecContexts == ContextsInit /\ [][Next]_vars

ServerContext ==
  last.request.environment \in {"node", "react-server"}

\* C32: the callback leaves the context it was handed as it was, and the
\* context it returns prefers the native platform exactly off web; for a
\* server environment it has package exports on, no per-platform
\* conditions, main fields main, module and conditions node, require (plus
\* react-server, server exactly for react-server); otherwise those fields
\* are the ones handed over, but for main fields browser, module, main on
\* web when the override is not disabled.
C32_ContextCopy ==
  last # NoCall =>
    /\ last.received = IncomingContext(last.request)
    /\ last.context.preferNativePlatform = (last.request.platform # "web")
    /\ ServerContext =>
         /\ last.context.unstable_enablePackageExports
         /\ last.context.unstable_conditionsByPlatform = <<>>
         /\ last.context.mainFields = <<"main", "module">>
         /\ last.context.unstable_conditionNames =
              IF last.request.environment = "react-server"
              THEN <<"node", "require", "react-server", "server">>
              ELSE <<"node", "require">>
    /\ ~ServerContext =>
         /\ last.context.unstable_enablePackageExports
              = last.received.unstable_enablePackageExports
         /\ last.context.unstable_conditionsByPlatform
              = last.received.unstable_conditionsByPlatform
         /\ last.context.unstable_conditionNames
              = last.received.unstable_conditionNames
         /\ last.context.mainFields =
              IF last.request.platform = "web"
                   /\ ~options.EXPO_METRO_NO_MAIN_FIELD_OVERRIDE
              THEN <<"browser", "module", "main">>
              ELSE last.received.mainFields

\* A web request of a client context whose main fields stay as handed over
\* because the override is disabled.
C32_Witness ==
  /\ last # NoCall
  /\ ~ServerContext
  /\ last.request.platform = "web"
  /\ options.EXPO_METRO_NO_MAIN_FIELD_OVERRIDE
  /\ last.context.mainFields = DefaultMainFields
  /\ ~last.context.preferNativePlatform
  /\ last.received.preferNativePlatform = FALSE

-----------------------------------------------------------------------------
(* Server requests with every short list of source extensions.              *)

MaxExts == 4

Exts == {"ts", "js", "mjs", "web.mjs", "cjs"}

ExtLists == UNION {[1..n -> Exts] : n \in 0..MaxExts}

ExtensionRequests ==
  [moduleName : {<<"react">>}, originModulePath : {AppFile}, platform : {"ios"},
   environment : {"node"}, exporting : {FALSE}, clientboundary : {FALSE},
   dev : {TRUE}, sourceExts : ExtLists]

ExtensionsInit ==
  /\ InitWith(ExtensionRequests,
              {l \in Layouts : l.optional = "installed" /\ l.overrides},
              {o \in OptionSets : ~o.isReactCanaryEnabled}, {NoConfig})
  /\ rules = externals
  /\ aliasTables = ConstructedAliases(layout)

SpecExtensions == ExtensionsInit /\ [][Next]_vars

Occurrences(exts, e) == Cardinality({i \in 1..Len(exts) : exts[i] = e})

MjsOf(exts) == SelectSeq(exts, EndsWithMjs)

OthersOf(exts) == SelectSeq(exts, LAMBDA e : ~EndsWithMjs(e))

\* The mjs extensions of exts are the m elements behind position k.
MjsBlockAt(exts, k, m) ==
  /\ k + m <= Len(exts)
  /\ \A i \in 1..Len(exts) : EndsWithMjs(exts[i]) <=> i \in (k + 1)..(k + m)
  /\ IF k = 0 THEN \A i \in 1..Len(exts) : ~EndsWithJsx(exts[i])
     ELSE /\ EndsWithJsx(exts[k])
          /\ \A i \in (k + m + 1)..Len(exts) : ~EndsWithJsx(exts[i])

\* C33: the list a server context gets is a permutation of the list handed
\* over, which is left as it was; the mjs extensions keep their order and
\* sit right behind the last js or jsx extension that is not an mjs one (at
\* the front when there is none); the other extensions keep their order.
C33_MjsBehindJs ==
  (last # NoCall /\ ServerContext) =>
    /\ last.received.sourceExts = last.request.sourceExts
    /\ Len(last.context.sourceExts) = Len(last.request.sourceExts)
    /\ \A e \in Exts :
         Occurrences(last.context.sourceExts, e)
           = Occurrences(last.request.sourceExts, e)
    /\ MjsOf(last.context.sourceExts) = MjsOf(last.request.sourceExts)
    /\ OthersOf(last.context.sourceExts) = OthersOf(last.request.sourceExts)
    /\ \E k \in 0..Len(last.context.sourceExts) :
         MjsBlockAt(last.context.sourceExts, k, Len(MjsOf(last.request.sourceExts)))

\* Two mjs extensions that stood around js and ahead of cjs, moved behind
\* cjs in their order.
C33_Witness ==
  /\ last # NoCall
  /\ last.request.sourceExts = <<"web.mjs", "js", "mjs", "cjs">>
  /\ last.context.sourceExts = <<"js", "cjs", "web.mjs", "mjs">>

-----------------------------------------------------------------------------
(* Server requests for packages under one scope.                            *)

ScopedNames ==
  {<<"@radix-ui", "Aa">>, <<"@radix-ui", "BB">>, <<"react">>, <<"debug">>}

ScopedRequests ==
  [moduleName : ScopedNames, originModulePath : {RootFile, AppFile},
   platform : Platforms, environment : {"node"}, exporting : {FALSE},
   clientboundary : BOOLEAN, dev : {TRUE}, sourceExts : SourceExtLists]

ScopedInit ==
  /\ InitWith(ScopedRequests,
              {l \in Layouts : l.optional = "installed" /\ l.overrides},
              {o \in OptionSets : ~o.isReactCanaryEnabled}, {NoConfig})
  /\ rules = externals
  /\ aliasTables = ConstructedAliases(layout)

\* The requesting file asks for another of the packages.
ResolveScoped ==
  \E moduleName \in ScopedNames :
    /\ Resolve([request EXCEPT !.moduleName = moduleName])
    /\ UNCHANGED settings

ScopedNext == ResolveRequested \/ ResolveScoped

SpecScoped == ScopedInit /\ [][ScopedNext]_vars

StubsOfLast ==
  UNION {{last.trace[i].taps[j] : j \in 1..Len(last.trace[i].taps)} :
           i \in 1..Len(last.trace)}

\* C31 as claimed: the stub of the last request stands at a path other than
\* that of any stub of different contents made for `request`, and the
\* module materialized at its path has the contents generated for it.
C31_OnePathOneContents ==
  last # NoCall =>
    \A stub \in StubsOfLast :
      /\ virtualModules[stub.absoluteFilePath] = stub.contents
      /\ baseline # NoCall =>
           \A i \in 1..Len(baseline.taps) :
             baseline.taps[i].contents # stub.contents
               => baseline.taps[i].absoluteFilePath # stub.absoluteFilePath

-----------------------------------------------------------------------------
(* withWebPolyfills: the polyfills of a platform.                           *)

EXTERNAL_REQUIRE_POLYFILL == <<".expo", "metro", "polyfill.js">>

EXTERNAL_REQUIRE_NATIVE_POLYFILL == <<".expo", "metro", "polyfill.native.js">>

\* config.serializer.getPolyfills bound to the serializer, or () => [].
originalGetPolyfills(config, ctx) ==
  IF config.serializer.getPolyfills.defined
  THEN config.serializer.getPolyfills.polyfills
  ELSE <<>>

\* The native polyfill put ahead of the configured ones.
getPolyfillsNativeFirst(config, ctx) ==
  IF ctx.platform = "web"
  THEN << pathJoin(config.projectRoot, EXTERNAL_REQUIRE_POLYFILL) >>
  ELSE << pathJoin(config.projectRoot, EXTERNAL_REQUIRE_NATIVE_POLYFILL) >>
         \o originalGetPolyfills(config, ctx)

\* The getPolyfills that withWebPolyfills installs.
getPolyfills(config, ctx) ==
  IF ctx.platform = "web"
  THEN << pathJoin(config.projectRoot, EXTERNAL_REQUIRE_POLYFILL) >>
  ELSE originalGetPolyfills(config, ctx)
         \o << pathJoin(config.projectRoot, EXTERNAL_REQUIRE_NATIVE_POLYFILL) >>

MaxPolyfills == 3

JsPolyfills == NodeModules \o <<"@react-native", "js-polyfills">>

PolyfillFiles ==
  {JsPolyfills \o <<"console.js">>, JsPolyfills \o <<"error-guard.js">>,
   ProjectRoot \o <<"polyfills", "intl.js">>}

PolyfillLists == UNION {[1..n -> PolyfillFiles] : n \in 0..MaxPolyfills}

\* The serializer options a metro config can have.
Serializers ==
  {[getPolyfills |-> [defined |-> FALSE, polyfills |-> <<>>]]}
    \cup {[getPolyfills |-> [defined |-> TRUE, polyfills |-> list]] :
             list \in PolyfillLists}

PolyfillsInit ==
  /\ PipelineIdle
  /\ RscIdle
  /\ invocation \in
       [of : {"getPolyfills"},
        config : [projectRoot : {ProjectRoot}, serializer : Serializers],
        ctx : [platform : Platforms],
        returned : {<<>>}]

\* The serializer asks for the polyfills of a platform.
PolyfillsAsked ==
  /\ invocation # NoCall
  /\ invocation.of = "getPolyfills"
  /\ invocation.returned = <<>>
  /\ invocation' =
       [invocation EXCEPT
          !.returned = <<getPolyfills(invocation.config, invocation.ctx)>>]
  /\ UNCHANGED <<pipeline, hashCache, fetchCache, globalThis, fetches>>

SpecPolyfills == PolyfillsInit /\ [][PolyfillsAsked]_vars

PolyfillsReturned ==
  /\ invocation # NoCall
  /\ invocation.of = "getPolyfills"
  /\ invocation.returned # <<>>

\* The polyfills the metro config was given.
BasePolyfills ==
  IF invocation.config.serializer.getPolyfills.defined
  THEN invocation.config.serializer.getPolyfills.polyfills
  ELSE <<>>

\* C34: for web the polyfills are the external-require polyfill alone, with
\* none of the configured polyfills; for any other platform they are the
\* configured polyfills in their order and then the native external-require
\* polyfill.
C34_PolyfillsByPlatform ==
  PolyfillsReturned =>
    IF invocation.ctx.platform = "web"
    THEN /\ invocation.returned[1]
              = <<ProjectRoot \o EXTERNAL_REQUIRE_POLYFILL>>
         /\ \A i \in 1..Len(BasePolyfills) :
              \A j \in 1..Len(invocation.returned[1]) :
                invocation.returned[1][j] # BasePolyfills[i]
    ELSE /\ Len(invocation.returned[1]) = Len(BasePolyfills) + 1
         /\ SubSeq(invocation.returned[1], 1, Len(BasePolyfills)) = BasePolyfills
         /\ invocation.returned[1][Len(BasePolyfills) + 1]
              = ProjectRoot \o EXTERNAL_REQUIRE_NATIVE_POLYFILL

\* Two configured polyfills asked for on a native platform.
C34_Witness ==
  /\ PolyfillsReturned
  /\ invocation.ctx.platform = "android"
  /\ Len(BasePolyfills) = 2
  /\ BasePolyfills[1] # BasePolyfills[2]
  /\ Len(invocation.returned[1]) = 3

-----------------------------------------------------------------------------
(* @expo/fingerprint: the ignore paths (Options.js).  A string is the        *)
(* sequence of its pieces; the text of the ignore file is held character by *)
(* character.                                                               *)

FINGERPRINT_IGNORE_FILENAME == <<".fingerprintignore">>

DEFAULT_IGNORE_PATHS ==
  << FINGERPRINT_IGNORE_FILENAME,
     <<"**/android/build/**/*">>, <<"**/android/.cxx/**/*">>,
     <<"**/android/.gradle/**/*">>, <<"**/android/app/build/**/*">>,
     <<"**/android/app/.cxx/**/*">>, <<"**/android/app/.gradle/**/*">>,
     <<"**/android-annotation/build/**/*">>, <<"**/android-annotation/.cxx/**/*">>,
     <<"**/android-annotation/.gradle/**/*">>,
     <<"**/android-annotation-processor/build/**/*">>,
     <<"**/android-annotation-processor/.cxx/**/*">>,
     <<"**/android-annotation-processor/.gradle/**/*">>,
     <<"**/android/gradlew.bat">>,
     <<"**/*-gradle-plugin/build/**/*">>, <<"**/*-gradle-plugin/.cxx/**/*">>,
     <<"**/*-gradle-plugin/.gradle/**/*">>,
     <<"**/ios/Pods/**/*">>, <<"**/ios/build/**/*">>,
     <<"**/ios/*.xcworkspace/xcuserdata/**/*">>,
     <<"**/.DS_Store">>,
     <<"app.config.ts">>, <<"app.config.js">>, <<"app.config.json">>, <<"app.json">>,
     <<"**/node_modules/@babel/**/*">>, <<"**/node_modules/@expo/**/*">>,
     <<"**/node_modules/@jridgewell/**/*">>, <<"**/node_modules/expo/config.js">>,
     <<"**/node_modules/expo/config-plugins.js">>,
     <<"**/node_modules/{debug,escape-string-regexp,getenv,graceful-fs,has-flag,imurmurhash,js-tokens,json5,lines-and-columns,require-from-string,resolve-from,signal-exit,sucrase,supports-color,ts-interface-checker,write-file-atomic}/**/*">> >>

LineFeed == "\n"

WhiteSpace == {" ", LineFeed}

\* fingerprintIgnore.split('\n'): the lines from the one that starts with
\* `line` on.
RECURSIVE SplitLines(_, _)
SplitLines(line, text) ==
  IF text = <<>> THEN <<line>>
  ELSE IF Head(text) = LineFeed THEN <<line>> \o SplitLines(<<>>, Tail(text))
  ELSE SplitLines(Append(line, Head(text)), Tail(text))

RECURSIVE TrimStart(_)
TrimStart(line) ==
  IF line # <<>> /\ Head(line) \in WhiteSpace THEN TrimStart(Tail(line)) ELSE line

RECURSIVE TrimEnd(_)
TrimEnd(line) ==
  IF line # <<>> /\ line[Len(line)] \in WhiteSpace
  THEN TrimEnd(SubSeq(line, 1, Len(line) - 1))
  ELSE line

\* line.trim()
Trim(line) == TrimEnd(TrimStart(line))

\* The entries the for loop pushes for the lines from index i on.
RECURSIVE PushedFrom(_, _)
PushedFrom(lines, i) ==
  IF i > Len(lines) THEN <<>>
  ELSE IF Trim(lines[i]) # <<>>
    THEN <<Trim(lines[i])>> \o PushedFrom(lines, i + 1)
    ELSE PushedFrom(lines, i + 1)

\* options?.ignorePaths ?? []
OptionIgnorePaths(opts) ==
  IF opts.defined /\ opts.ignorePaths.defined THEN opts.ignorePaths.value ELSE <<>>

\* options?.dirExcludes?.map((dirExclude) => `${dirExclude}/**/*`) ?? []
DirExcludeEntry(dirExclude) == dirExclude \o <<"/**/*">>

RECURSIVE MapDirExcludes(_)
MapDirExcludes(dirExcludes) ==
  IF dirExcludes = <<>> THEN <<>>
  ELSE <<DirExcludeEntry(Head(dirExcludes))>> \o MapDirExcludes(Tail(dirExcludes))

OptionDirExcludes(opts) ==
  IF opts.defined /\ opts.dirExcludes.defined
  THEN MapDirExcludes(opts.dirExcludes.value)
  ELSE <<>>

\* What the try block adds: nothing when readFile rejects.
FromIgnoreFile(file) ==
  IF file.readable THEN PushedFrom(SplitLines(<<>>, file.text), 1) ELSE <<>>

collectIgnorePathsAsync(opts, file) ==
  [threw |-> FALSE,
   ignorePaths |->
     DEFAULT_IGNORE_PATHS \o OptionIgnorePaths(opts) \o OptionDirExcludes(opts)
       \o FromIgnoreFile(file)]

MaxFile == 5

FileChars == {" ", "#", "a", LineFeed}

FileTexts == UNION {[1..n -> FileChars] : n \in 0..MaxFile}

\* .fingerprintignore of the project: absent, or a text.
IgnoreFiles ==
  {[readable |-> FALSE, text |-> <<>>]}
    \cup {[readable |-> TRUE, text |-> text] : text \in FileTexts}

Absent == [defined |-> FALSE, value |-> <<>>]

Given(value) == [defined |-> TRUE, value |-> value]

FingerprintOptions ==
  {[defined |-> FALSE, ignorePaths |-> Absent, dirExcludes |-> Absent],
   [defined |-> TRUE, ignorePaths |-> Absent, dirExcludes |-> Absent],
   [defined |-> TRUE, ignorePaths |-> Given(<< <<"docs/**/*">> >>),
    dirExcludes |-> Given(<< <<"build">>, <<"dist">> >>)]}

IgnorePathsInit ==
  /\ PipelineIdle
  /\ RscIdle
  /\ invocation \in
       [of : {"collectIgnorePathsAsync"}, options : FingerprintOptions,
        file : IgnoreFiles, returned : {<<>>}]

\* normalizeOptionsAsync collects the ignore paths.
IgnorePathsCollected ==
  /\ invocation # NoCall
  /\ invocation.of = "collectIgnorePathsAsync"
  /\ invocation.returned = <<>>
  /\ invocation' =
       [invocation EXCEPT
          !.returned =
             <<collectIgnorePathsAsync(invocation.options, invocation.file)>>]
  /\ UNCHANGED <<pipeline, hashCache, fetchCache, globalThis, fetches>>

SpecIgnorePaths == IgnorePathsInit /\ [][IgnorePathsCollected]_vars

\* The trimmed lines of a text that are neither empty nor comments.
RECURSIVE Declarations(_, _)
Declarations(lines, i) ==
  IF i > Len(lines) THEN <<>>
  ELSE IF Trim(lines[i]) # <<>> /\ Head(Trim(lines[i])) # "#"
    THEN <<Trim(lines[i])>> \o Declarations(lines, i + 1)
    ELSE Declarations(lines, i + 1)

\* C38 as claimed: the list is the default paths, the paths of the options,
\* an entry <dir>/**/* per dirExclude, and the trimmed lines of the ignore
\* file in order, without the empty lines and the lines beginning with #;
\* a file that cannot be read adds nothing and raises nothing.
C38_IgnorePathsInOrder ==
  (/\ invocation # NoCall
   /\ invocation.of = "collectIgnorePathsAsync"
   /\ invocation.returned # <<>>) =>
    /\ ~invocation.returned[1].threw
    /\ invocation.returned[1].ignorePaths =
         DEFAULT_IGNORE_PATHS
           \o OptionIgnorePaths(invocation.options)
           \o OptionDirExcludes(invocation.options)
           \o (IF invocation.file.readable
               THEN Declarations(SplitLines(<<>>, invocation.file.text), 1)
               ELSE <<>>)

-----------------------------------------------------------------------------
(* The RSC client (part_000): checkStatus.                                  *)

\* Response bodies a development server sends with an error.
MetroErrorBody == "{\"message\":\"Boom\",\"stack\":\"at App\",\"type\":\"TransformError\"}"

MessageOnlyBody == "{\"message\":\"Not found\"}"

HtmlBody == "<html>Internal Server Error</html>"

Bodies == {MetroErrorBody, MessageOnlyBody, HtmlBody, ""}

NotJson == [valid |-> FALSE, value |-> Empty]

\* JSON.parse on the texts that occur; anything else is a SyntaxError.
JSONParse(text) ==
  CASE text = MetroErrorBody ->
         [valid |-> TRUE,
          value |-> [key \in {"message", "stack", "type"} |->
                       CASE key = "message" -> "Boom"
                         [] key = "stack" -> "at App"
                         [] key = "type" -> "TransformError"]]
    [] text = MessageOnlyBody ->
         [valid |-> TRUE, value |-> [key \in {"message"} |-> "Not found"]]
    [] OTHER -> NotJson

\* The text JSON.parse makes of a variable that has not been assigned.
UndefinedText == "undefined"

Threw(message, keys, statusCode) ==
  [threw |-> TRUE, message |-> message, keys |-> keys, statusCode |-> statusCode]

Returned(response) == [threw |-> FALSE, response |-> response]

\* The error made of a parsed body: its message, and every key copied.
ErrorOfJson(errorJson) == Threw(errorJson.message, errorJson, {})

\* The 500 branch in development: errorJson is declared, and JSON.parse is
\* handed errorJson itself.
DevelopmentError(errorText) ==
  IF JSONParse(UndefinedText).valid
  THEN ErrorOfJson(JSONParse(UndefinedText).value)
  ELSE Threw(errorText, Empty, {})

checkStatus(dev, response) ==
  IF ~response.ok
  THEN IF dev /\ response.status = 500
       THEN DevelopmentError(response.body)
       ELSE Threw(response.statusText, Empty, {response.status})
  ELSE Returned(response)

StatusTexts ==
  [status \in {200, 204, 400, 404, 500, 502, 503} |->
     CASE status = 200 -> "OK"
       [] status = 204 -> "No Content"
       [] status = 400 -> "Bad Request"
       [] status = 404 -> "Not Found"
       [] status = 500 -> "Internal Server Error"
       [] status = 502 -> "Bad Gateway"
       [] status = 503 -> "Service Unavailable"]

\* Responses of a fetch: ok is status in 200..299.
Responses ==
  {[ok |-> status \in 200..299, status |-> status,
    statusText |-> StatusTexts[status], body |-> body] :
     status \in DOMAIN StatusTexts, body \in Bodies}

StatusInit ==
  /\ PipelineIdle
  /\ RscIdle
  /\ invocation \in
       [of : {"checkStatus"}, dev : BOOLEAN, response : Responses,
        returned : {<<>>}]

\* checkStatus(responsePromise) settles.
StatusChecked ==
  /\ invocation # NoCall
  /\ invocation.of = "checkStatus"
  /\ invocation.returned = <<>>
  /\ invocation' =
       [invocation EXCEPT
          !.returned = <<checkStatus(invocation.dev, invocation.response)>>]
  /\ UNCHANGED <<pipeline, hashCache, fetchCache, globalThis, fetches>>

SpecStatus == StatusInit /\ [][StatusChecked]_vars

\* C37 as claimed, in development: a 500 response whose body is a JSON
\* object is thrown as an error with the object's message and all its keys;
\* a 500 response whose body is not JSON as an error with the body as
\* message; any other response that is not ok as an error with the status
\* text as message and the status as statusCode; an ok response is
\* returned as it is.
C37_ErrorOfStatus ==
  (/\ invocation # NoCall
   /\ invocation.of = "checkStatus"
   /\ invocation.dev
   /\ invocation.returned # <<>>) =>
    IF invocation.response.ok
    THEN invocation.returned[1] = Returned(invocation.response)
    ELSE /\ invocation.returned[1].threw
         /\ IF invocation.response.status # 500
            THEN /\ invocation.returned[1].message = invocation.response.statusText
                 /\ invocation.returned[1].statusCode = {invocation.response.status}
            ELSE IF JSONParse(invocation.response.body).valid
              THEN /\ invocation.returned[1].message
                        = JSONParse(invocation.response.body).value.message
                   /\ invocation.returned[1].keys
                        = JSONParse(invocation.response.body).value
              ELSE invocation.returned[1].message = invocation.response.body

-----------------------------------------------------------------------------
(* The RSC client (part_000, part_001): fetchRSC, prefetchRSC and the       *)
(* reload listeners.  A URL is the sequence of its pieces.                  *)

BASE_PATH == <<"/", "_flight/">>

\* The file name of an input.
encodeInput(input) == <<IF input = "" THEN "index" ELSE input, ".txt">>

DevServerUrl == <<"http://localhost:8081">>

BundleDirectory == <<"/bundle">>

getAdjustedFilePath(g, path) ==
  IF g.OS = "web" THEN path
  ELSE IF g.bundleLoadedFromServer
    THEN IF path # <<>> /\ path[1] = "/" THEN DevServerUrl \o path ELSE path
    ELSE IF g.OS = "android" THEN <<"file:///android_asset">> \o path
    ELSE <<"file://">> \o BundleDirectory \o path

\* BASE_PATH + encodeInput(input) + (searchParamsString ? '?' + ... : '')
UrlOf(input, searchParamsString) ==
  BASE_PATH \o encodeInput(input)
    \o (IF searchParamsString # "" THEN <<"?", searchParamsString>> ELSE <<>>)

\* list.indexOf(item), counted from 1; 0 when the item is not in the list.
IndexOf(list, item) ==
  IF \E i \in 1..Len(list) : list[i] = item
  THEN CHOOSE i \in 1..Len(list) :
         list[i] = item /\ \A j \in 1..(i - 1) : list[j] # item
  ELSE 0

\* A listener added whether or not its predecessor is in the list.
RegisteredAlwaysAdded(list, previous, listener, atFront) ==
  IF atFront THEN <<listener>> \o list ELSE Append(list, listener)

\* The listener list after a registration: the previous listener of the
\* kind is replaced where it stands, otherwise the new one is added.
Registered(list, previous, listener, atFront) ==
  IF IndexOf(list, previous) # 0
  THEN [list EXCEPT ![IndexOf(list, previous)] = listener]
  ELSE IF atFront THEN <<listener>> \o list ELSE Append(list, listener)

\* The closure refetchRsc of one call of fetchRSC.
refetchRsc(id, input, searchParamsString, setElements) ==
  [kind |-> "rsc", id |-> id, input |-> input,
   searchParamsString |-> searchParamsString, setElements |-> setElements]

\* The closure refetchRoute of one run of the effect.
refetchRoute(id) ==
  [kind |-> "route", id |-> id, input |-> "", searchParamsString |-> "",
   setElements |-> ""]

\* The development block of fetchRSC.
WithRefetchRsc(g, listener) ==
  IF g.NODE_ENV = "development"
  THEN [g EXCEPT
          !.__WAKU_RSC_RELOAD_LISTENERS__ =
             Registered(@, g.__WAKU_REFETCH_RSC__, listener, FALSE),
          !.__WAKU_REFETCH_RSC__ = listener]
  ELSE g

\* The development block of RootErrorBoundary's effect.
WithRefetchRoute(g, listener) ==
  IF g.NODE_ENV = "development"
  THEN [g EXCEPT
          !.__WAKU_RSC_RELOAD_LISTENERS__ =
             Registered(@, g.__WAKU_REFETCH_ROUTE__, listener, TRUE),
          !.__WAKU_REFETCH_ROUTE__ = listener]
  ELSE g

\* A cache entry is reused whatever the search params.
CacheHitByInput(cache, input, searchParamsString) ==
  cache # <<>> /\ cache[1].input = input

\* entry && entry[0] === input && entry[1] === searchParamsString
CacheHit(cache, input, searchParamsString) ==
  /\ cache # <<>>
  /\ cache[1].input = input
  /\ cache[1].searchParamsString = searchParamsString

\* fetch(url): a new response promise.
Fetch(id, url) == [url |-> url, id |-> id]

\* createFromFetch(checkStatus(response), options)
createFromFetch(response) == [response |-> response]

Without1(f, key) == [k \in DOMAIN f \ {key} |-> f[k]]

\* The log of requests after `response` was handed to createFromFetch.
Taken(log, response) ==
  IF \E i \in 1..Len(log) : log[i].response = response
  THEN [i \in 1..Len(log) |->
          IF log[i].response = response
          THEN [log[i] EXCEPT !.consumed = @ + 1]
          ELSE log[i]]
  ELSE Append(log, [response |-> response, by |-> "fetchRSC", consumed |-> 1])

\* prefetched[url] || fetch(getAdjustedFilePath(url), ...)
ResponseFor(g, id, url) ==
  IF url \in DOMAIN g.__WAKU_PREFETCHED__
  THEN g.__WAKU_PREFETCHED__[url]
  ELSE Fetch(id, getAdjustedFilePath(g, url))

\* fetchRSC past its cache: the response is taken or fetched, forgotten as
\* prefetched, and its elements become the cache entry.
FetchedRSC(state, g, id, input, searchParamsString, setElements, url) ==
  [fetchCache |->
     <<[input |-> input, searchParamsString |-> searchParamsString,
        setElements |-> setElements,
        elements |-> createFromFetch(ResponseFor(g, id, url))]>>,
   globalThis |-> [g EXCEPT !.__WAKU_PREFETCHED__ = Without1(@, url)],
   fetches |-> Taken(state.fetches, ResponseFor(g, id, url)),
   returned |-> createFromFetch(ResponseFor(g, id, url))]

\* fetchRSC after its development block.
CachedOrFetchedRSC(state, g, id, input, searchParamsString, setElements) ==
  IF CacheHit(state.fetchCache, input, searchParamsString)
  THEN [fetchCache |-> <<[state.fetchCache[1] EXCEPT !.setElements = setElements]>>,
        globalThis |-> g,
        fetches |-> state.fetches,
        returned |-> state.fetchCache[1].elements]
  ELSE FetchedRSC(state, g, id, input, searchParamsString, setElements,
                  UrlOf(input, searchParamsString))

fetchRSC(state, id, input, searchParamsString, setElements) ==
  CachedOrFetchedRSC(state,
                     WithRefetchRsc(state.globalThis,
                                    refetchRsc(id, input, searchParamsString,
                                               setElements)),
                     id, input, searchParamsString, setElements)

\* prefetchRSC past its URL: one fetch per URL not yet prefetched.
PrefetchedRSC(state, id, url) ==
  IF url \in DOMAIN state.globalThis.__WAKU_PREFETCHED__
  THEN [state EXCEPT !.returned = NoCall]
  ELSE [state EXCEPT
          !.globalThis.__WAKU_PREFETCHED__ = (url :> Fetch(id, url)) @@ @,
          !.fetches = Append(@, [response |-> Fetch(id, url), by |-> "prefetchRSC",
                                 consumed |-> 0]),
          !.returned = NoCall]

prefetchRSC(state, id, input, searchParamsString) ==
  PrefetchedRSC(state, id,
                getAdjustedFilePath(state.globalThis,
                                    UrlOf(input, searchParamsString)))

\* The effect of RootErrorBoundary.
RootErrorBoundary(state, id) ==
  [state EXCEPT !.globalThis = WithRefetchRoute(@, refetchRoute(id)),
                !.returned = NoCall]

MaxCalls == 4

Inputs == {"home", "about"}

SearchParams == {"", "q=1"}

Setters == {"setElements of Root", "setElements of refetch"}

\* Where the bundle runs.
Runtimes ==
  {[NoGlobals EXCEPT !.NODE_ENV = env, !.OS = os, !.bundleLoadedFromServer = served] :
     env \in {"development", "production"}, os \in Platforms, served \in BOOLEAN}

NoLatest == [rsc |-> 0, route |-> 0]

RscInit ==
  /\ PipelineIdle
  /\ fetchCache = <<>>
  /\ globalThis \in Runtimes
  /\ fetches = <<>>
  /\ invocation =
       [of |-> "import", serial |-> 0, input |-> "", searchParamsString |-> "",
        setElements |-> "", returned |-> NoCall,
        before |-> [fetchCache |-> <<>>, fetches |-> <<>>], latest |-> NoLatest]

RscState ==
  [fetchCache |-> fetchCache, globalThis |-> globalThis, fetches |-> fetches,
   returned |-> NoCall]

Cleared(state) == [state EXCEPT !.fetchCache = <<>>]

RscRunning ==
  /\ invocation # NoCall
  /\ invocation.of \in {"import", "fetchRSC", "prefetchRSC", "RootErrorBoundary"}
  /\ invocation.serial < MaxCalls

\* The ids of the listeners registered last, one per kind.
LatestAfter(of) ==
  IF globalThis.NODE_ENV # "development" THEN invocation.latest
  ELSE IF of = "fetchRSC"
    THEN [invocation.latest EXCEPT !.rsc = invocation.serial + 1]
  ELSE IF of = "RootErrorBoundary"
    THEN [invocation.latest EXCEPT !.route = invocation.serial + 1]
  ELSE invocation.latest

\* A call has run from `before` to `after`.
Called(of, input, searchParamsString, setElements, before, after) ==
  /\ fetchCache' = after.fetchCache
  /\ globalThis' = after.globalThis
  /\ fetches' = after.fetches
  /\ invocation' =
       [of |-> of, serial |-> invocation.serial + 1, input |-> input,
        searchParamsString |-> searchParamsString, setElements |-> setElements,
        returned |-> after.returned,
        before |-> [fetchCache |-> before.fetchCache, fetches |-> before.fetches],
        latest |-> LatestAfter(of)]
  /\ UNCHANGED <<pipeline, hashCache>>

\* Root or refetch calls fetchRSC.
FetchRSCCalled ==
  /\ RscRunning
  /\ \E input \in Inputs, searchParamsString \in SearchParams,
        setElements \in Setters :
       Called("fetchRSC", input, searchParamsString, setElements, RscState,
              fetchRSC(RscState, invocation.serial + 1, input, searchParamsString,
                       setElements))

\* A reload runs the listener refetchRsc: cache.splice(0), then fetchRSC
\* with the arguments of the call that made the listener.
RefetchRscRun ==
  /\ RscRunning
  /\ \E i \in 1..Len(globalThis.__WAKU_RSC_RELOAD_LISTENERS__) :
       /\ globalThis.__WAKU_RSC_RELOAD_LISTENERS__[i].kind = "rsc"
       /\ Called("fetchRSC",
                 globalThis.__WAKU_RSC_RELOAD_LISTENERS__[i].input,
                 globalThis.__WAKU_RSC_RELOAD_LISTENERS__[i].searchParamsString,
                 globalThis.__WAKU_RSC_RELOAD_LISTENERS__[i].setElements,
                 Cleared(RscState),
                 fetchRSC(Cleared(RscState), invocation.serial + 1,
                          globalThis.__WAKU_RSC_RELOAD_LISTENERS__[i].input,
                          globalThis.__WAKU_RSC_RELOAD_LISTENERS__[i].searchParamsString,
                          globalThis.__WAKU_RSC_RELOAD_LISTENERS__[i].setElements))

\* A link prefetches its target.
PrefetchRSCCalled ==
  /\ RscRunning
  /\ \E input \in Inputs, searchParamsString \in SearchParams :
       Called("prefetchRSC", input, searchParamsString, "", RscState,
              prefetchRSC(RscState, invocation.serial + 1, input,
                          searchParamsString))

\* React runs the effect of RootErrorBoundary.
RootErrorBoundaryEffect ==
  /\ RscRunning
  /\ Called("RootErrorBoundary", "", "", "", RscState,
            RootErrorBoundary(RscState, invocation.serial + 1))

RscNext ==
  \/ FetchRSCCalled
  \/ RefetchRscRun
  \/ PrefetchRSCCalled
  \/ RootErrorBoundaryEffect

SpecRsc == RscInit /\ [][RscNext]_vars

FetchRSCReturned == invocation # NoCall /\ invocation.of = "fetchRSC"

\* The cache held an entry for the input and search params of the call.
EntryMatched ==
  /\ invocation.before.fetchCache # <<>>
  /\ invocation.before.fetchCache[1].input = invocation.input
  /\ invocation.before.fetchCache[1].searchParamsString
       = invocation.searchParamsString

\* Requests made by the call.
IssuedByCall == Len(fetches) - Len(invocation.before.fetches)

\* Earlier requests whose response the call took.
ConsumedByCall ==
  Cardinality({i \in 1..Len(invocation.before.fetches) :
                 fetches[i].consumed = invocation.before.fetches[i].consumed + 1})

EarlierRequestsKept ==
  \A i \in 1..Len(invocation.before.fetches) :
    /\ fetches[i].response = invocation.before.fetches[i].response
    /\ fetches[i].consumed \in
         {invocation.before.fetches[i].consumed,
          invocation.before.fetches[i].consumed + 1}

\* C35: the cache never holds more than one entry; a call for the entry's
\* input and search params returns the entry's elements, makes no request
\* and leaves the entry with the setElements passed in; any other call
\* makes or takes exactly one request, returns its elements, which are new,
\* and leaves them as the one entry; no response is taken twice.
C35_OneEntryCache ==
  /\ Len(fetchCache) <= 1
  /\ \A i \in 1..Len(fetches) : fetches[i].consumed <= 1
  /\ FetchRSCReturned =>
       /\ EarlierRequestsKept
       /\ IF EntryMatched
          THEN /\ invocation.returned = invocation.before.fetchCache[1].elements
               /\ IssuedByCall = 0
               /\ ConsumedByCall = 0
               /\ fetchCache =
                    <<[invocation.before.fetchCache[1] EXCEPT
                         !.setElements = invocation.setElements]>>
          ELSE /\ IssuedByCall + ConsumedByCall = 1
               /\ \A i \in 1..Len(invocation.before.fetchCache) :
                    invocation.returned # invocation.before.fetchCache[i].elements
               /\ \E i \in 1..Len(fetches) :
                    /\ invocation.returned = createFromFetch(fetches[i].response)
                    /\ fetches[i].consumed = 1
               /\ fetchCache =
                    <<[input |-> invocation.input,
                       searchParamsString |-> invocation.searchParamsString,
                       setElements |-> invocation.setElements,
                       elements |-> invocation.returned]>>

\* A prefetched response taken by one call, and the entry made of it
\* reused by a call with another setElements.
C35_Witness ==
  /\ FetchRSCReturned
  /\ EntryMatched
  /\ invocation.before.fetchCache[1].setElements # invocation.setElements
  /\ Len(fetches) = 1
  /\ fetches[1].by = "prefetchRSC"
  /\ fetches[1].consumed = 1
  /\ invocation.returned = createFromFetch(fetches[1].response)

\* The positions of the listeners of a kind in the global list.
ListenersOf(kind) ==
  {i \in 1..Len(globalThis.__WAKU_RSC_RELOAD_LISTENERS__) :
     globalThis.__WAKU_RSC_RELOAD_LISTENERS__[i].kind = kind}

InDevelopment ==
  /\ invocation # NoCall
  /\ invocation.of \in {"import", "fetchRSC", "prefetchRSC", "RootErrorBoundary"}
  /\ globalThis.NODE_ENV = "development"

\* C36: in development the listener list holds at most one refetchRsc and
\* at most one refetchRoute, each the one registered last of its kind (and
\* there once one was registered), and refetchRoute stands ahead of
\* refetchRsc.
C36_OneListenerPerKind ==
  InDevelopment =>
    /\ Cardinality(ListenersOf("rsc")) <= 1
    /\ Cardinality(ListenersOf("route")) <= 1
    /\ \A i \in ListenersOf("rsc") :
         globalThis.__WAKU_RSC_RELOAD_LISTENERS__[i].id = invocation.latest.rsc
    /\ \A i \in ListenersOf("route") :
         globalThis.__WAKU_RSC_RELOAD_LISTENERS__[i].id = invocation.latest.route
    /\ invocation.latest.rsc # 0 => ListenersOf("rsc") # {}
    /\ invocation.latest.route # 0 => ListenersOf("route") # {}
    /\ \A i \in ListenersOf("route") : \A j \in ListenersOf("rsc") : i < j

\* fetchRSC, the effect, fetchRSC again: the second refetchRsc stands where
\* the first stood, behind refetchRoute.
C36_Witness ==
  /\ InDevelopment
  /\ Len(globalThis.__WAKU_RSC_RELOAD_LISTENERS__) = 2
  /\ globalThis.__WAKU_RSC_RELOAD_LISTENERS__[1].kind = "route"
  /\ globalThis.__WAKU_RSC_RELOAD_LISTENERS__[1].id = 2
  /\ globalThis.__WAKU_RSC_RELOAD_LISTENERS__[2].kind = "rsc"
  /\ globalThis.__WAKU_RSC_RELOAD_LISTENERS__[2].id = 3

====
